---- MODULE Spec2Model ----
(***************************************************************************)
(* A model of the RCL contract analyser: the clause algebra, the           *)
(* composed-action elaboration, the one-step decomposer, the action        *)
(* extractor with its concurrency enumeration, the conflict searcher and   *)
(* the automaton constructor that drives them.                             *)
(*                                                                         *)
(* Option<T> is modelled as a sequence of length 0 (None) or 1 (Some).     *)
(* Every clause record carries every field, so that structural equality    *)
(* of the model's records is the derived PartialEq of the source.          *)
(***************************************************************************)
EXTENDS Integers, Sequences, FiniteSets, TLC

None == << >>
Some(x) == << x >>
IsSome(o) == Len(o) = 1
Unwrap(o) == o[1]

(***************************************************************************)
(* model/actions.rs                                                        *)
(***************************************************************************)

\* BasicAction::new ; concurrent_actions is always empty in the source.
BasicAction(value, violation, skip, negation) ==
    [kind |-> "Basic", value |-> value, violation |-> violation, skip |-> skip,
     negation |-> negation, operator |-> "None", left |-> None, right |-> None]

WithValue(value) == BasicAction(value, FALSE, FALSE, FALSE)
SkipAction == BasicAction(0, FALSE, TRUE, FALSE)
ViolationAction == BasicAction(-1, TRUE, FALSE, FALSE)

\* BasicAction::negate
Negate(ba) == [ba EXCEPT !.negation = ~ba.negation]

\* ComposedAction::new
ComposedAction(left, right, operator) ==
    [kind |-> "Composed", value |-> 0, violation |-> FALSE, skip |-> FALSE,
     negation |-> FALSE, operator |-> operator, left |-> left, right |-> right]

Choice(l, r) == ComposedAction(Some(l), Some(r), "Choice")
Concurrency(l, r) == ComposedAction(Some(l), Some(r), "Concurrency")
Sequence(l, r) == ComposedAction(Some(l), Some(r), "Sequence")
Negation(a) == ComposedAction(Some(a), None, "Negation")
Star(a) == ComposedAction(Some(a), None, "Star")

IsComposedAction(action) == action.kind = "Composed"

\* Action::get_basic_actions: a basic action contributes with_value(value)
\* unless it is SKIP (its violation and negation flags are dropped); a
\* composed action contributes those of its operands.
RECURSIVE GetBasicActions(_)
GetBasicActions(action) ==
    IF action.kind = "Basic"
    THEN IF action.skip THEN {} ELSE {WithValue(action.value)}
    ELSE (IF IsSome(action.left) THEN GetBasicActions(Unwrap(action.left)) ELSE {})
         \cup
         (IF IsSome(action.right) THEN GetBasicActions(Unwrap(action.right)) ELSE {})

\* RelativizedAction::new and RelativizedAction::negation
RelativizedAction(sender, action, receiver) ==
    [negation |-> FALSE, sender |-> sender, action |-> action, receiver |-> receiver]

RelativizedNegation(ra) == [ra EXCEPT !.negation = TRUE]

(***************************************************************************)
(* model/contracts.rs                                                      *)
(***************************************************************************)

ClauseComposition(composition_type, other) ==
    [composition_type |-> composition_type, other |-> other]

Boolean(value, composition) ==
    [kind |-> "Boolean", value |-> value, sender |-> 0, receiver |-> 0,
     rtype |-> "Global", action |-> SkipAction, dtype |-> "Obligation",
     penalty |-> None, clause |-> None, composition |-> composition]

BooleanTrue == Boolean(TRUE, None)
BooleanFalse == Boolean(FALSE, None)

Deontic(sender, receiver, rtype, action, dtype, penalty, composition) ==
    [kind |-> "Deontic", value |-> FALSE, sender |-> sender, receiver |-> receiver,
     rtype |-> rtype, action |-> action, dtype |-> dtype,
     penalty |-> penalty, clause |-> None, composition |-> composition]

Dynamic(sender, receiver, rtype, action, clause, composition) ==
    [kind |-> "Dynamic", value |-> FALSE, sender |-> sender, receiver |-> receiver,
     rtype |-> rtype, action |-> action, dtype |-> "Obligation",
     penalty |-> None, clause |-> Some(clause), composition |-> composition]

\* Clause::dynamic_directed: the relativization follows the sentinels.
DynamicDirected(sender, receiver, action, clause) ==
    Dynamic(sender, receiver,
            IF sender < 0 THEN "Global"
            ELSE IF receiver < 0 THEN "Relativized" ELSE "Directed",
            action, clause, None)

IsBoolean(c) == c.kind = "Boolean"

SetComposition(c, composition) == [c EXCEPT !.composition = Some(composition)]
SetCompositionToNone(c) == [c EXCEPT !.composition = None]
GetComposition(c) == c.composition

\* Clause::contains: walks the spine while the connective is comp_type.
RECURSIVE Contains(_, _, _)
Contains(c, comp_type, target) ==
    IF SetCompositionToNone(c) = target THEN TRUE
    ELSE IF IsSome(c.composition)
         THEN IF Unwrap(c.composition).composition_type # comp_type THEN FALSE
              ELSE Contains(Unwrap(c.composition).other, comp_type, target)
         ELSE FALSE

\* The heads along the composition spine, in order, each without its
\* composition.
RECURSIVE Spine(_)
Spine(c) ==
    << SetCompositionToNone(c) >> \o
    (IF IsSome(c.composition) THEN Spine(Unwrap(c.composition).other) ELSE << >>)

(***************************************************************************)
(* algorithms/clause_decomposer.rs : composed-action elaboration           *)
(***************************************************************************)

\* ClauseDecomposer::append_composition
RECURSIVE AppendComposition(_, _, _)
AppendComposition(clause, new_clause, comp_type) ==
    IF IsSome(clause.composition)
    THEN LET comp == Unwrap(clause.composition)
         IN SetComposition(clause,
                ClauseComposition(comp.composition_type,
                    AppendComposition(comp.other, new_clause, comp_type)))
    ELSE SetComposition(clause, ClauseComposition(comp_type, new_clause))

\* The deontic clause of `clause` over another action and composition.
DeonticOver(clause, action, composition) ==
    Deontic(clause.sender, clause.receiver, clause.rtype, action, clause.dtype,
            clause.penalty, composition)

\* The dynamic clause of `clause` over another action, inner clause and
\* composition.
DynamicOver(clause, action, inner, composition) ==
    Dynamic(clause.sender, clause.receiver, clause.rtype, action, inner, composition)

\* The Sequence arm with the left operand where the right one belongs:
\* D(left) <connective> <left>(D(left)).
DeonticSequenceOfLeft(clause, connective) ==
    LET left == Unwrap(clause.action.left)
        c1 == DeonticOver(clause, left, None)
        cd == DynamicDirected(clause.sender, clause.receiver, left, c1)
        cd_with_comp == [cd EXCEPT !.composition = clause.composition]
    IN SetComposition(c1, ClauseComposition(connective, cd_with_comp))

\* The shape shared by the Sequence arms of the deontic rewrites:
\* D(left) <connective> <left>(D(right)) with the tail on the dynamic one.
DeonticSequence(clause, connective) ==
    LET left == Unwrap(clause.action.left)
        right == Unwrap(clause.action.right)
        c1 == DeonticOver(clause, left, None)
        c2 == DeonticOver(clause, right, None)
        cd == DynamicDirected(clause.sender, clause.receiver, left, c2)
        cd_with_comp == [cd EXCEPT !.composition = clause.composition]
    IN SetComposition(c1, ClauseComposition(connective, cd_with_comp))

\* The shape shared by the binary, non-sequence arms: D(left) <connective>
\* D(right) with the tail on the right one.
DeonticPair(clause, connective) ==
    LET left == Unwrap(clause.action.left)
        right == Unwrap(clause.action.right)
        c1 == DeonticOver(clause, left, None)
        c2 == DeonticOver(clause, right, clause.composition)
    IN SetComposition(c1, ClauseComposition(connective, c2))

\* ClauseDecomposer::process_composed_obligation
ProcessComposedObligation(clause) ==
    IF ~IsComposedAction(clause.action) THEN clause
    ELSE CASE clause.action.operator = "Concurrency" -> DeonticPair(clause, "And")
           [] clause.action.operator = "Sequence" -> DeonticSequence(clause, "And")
           [] clause.action.operator = "Choice" -> DeonticPair(clause, "Or")
           [] OTHER -> clause

\* ClauseDecomposer::process_composed_prohibition
ProcessComposedProhibition(clause) ==
    IF ~IsComposedAction(clause.action) THEN clause
    ELSE CASE clause.action.operator \in {"Choice", "Concurrency"} ->
                DeonticPair(clause, "And")
           [] clause.action.operator = "Sequence" -> DeonticSequence(clause, "Or")
           [] OTHER -> clause

\* ClauseDecomposer::process_composed_permission
ProcessComposedPermission(clause) == ProcessComposedObligation(clause)

\* ClauseDecomposer::process_deontic_composed_actions
ProcessDeonticComposedActions(clause) ==
    IF clause.kind = "Deontic" /\ IsComposedAction(clause.action)
    THEN CASE clause.dtype = "Obligation" -> ProcessComposedObligation(clause)
           [] clause.dtype = "Prohibition" -> ProcessComposedProhibition(clause)
           [] clause.dtype = "Permission" -> ProcessComposedPermission(clause)
    ELSE clause

\* ClauseDecomposer::process_negation_composed_actions
ProcessNegationComposedActions(clause) ==
    IF clause.kind = "Dynamic" /\ IsComposedAction(clause.action)
    THEN IF IsSome(clause.action.left)
         THEN LET left == Unwrap(clause.action.left)
                  inner == Unwrap(clause.clause)
              IN IF left.kind = "Basic"
                 THEN DynamicOver(clause, Negate(left), inner, clause.composition)
                 ELSE CASE left.operator = "Sequence" ->
                             DynamicOver(clause, Negation(Unwrap(left.left)),
                                 DynamicOver(clause, Negation(Unwrap(left.right)),
                                             inner, None),
                                 clause.composition)
                        [] left.operator = "Concurrency" ->
                             SetComposition(
                                 DynamicOver(clause, Negation(Unwrap(left.left)), inner, None),
                                 ClauseComposition("And",
                                     DynamicOver(clause, Negation(Unwrap(left.right)),
                                                 inner, clause.composition)))
                        [] left.operator = "Choice" ->
                             SetComposition(
                                 DynamicOver(clause, Negation(Unwrap(left.left)), inner, None),
                                 ClauseComposition("Or",
                                     DynamicOver(clause, Negation(Unwrap(left.right)),
                                                 inner, clause.composition)))
                        [] OTHER -> clause
         ELSE BooleanFalse
    ELSE clause

\* ClauseDecomposer::process_dynamic_composed_actions
ProcessDynamicComposedActions(clause) ==
    IF clause.kind = "Dynamic" /\ IsComposedAction(clause.action)
    THEN LET op == clause.action.operator
             inner == Unwrap(clause.clause)
         IN CASE op = "Star" ->
                   SetComposition(inner,
                       ClauseComposition("And",
                           DynamicOver(clause, Unwrap(clause.action.left), clause,
                                       clause.composition)))
              [] op = "Sequence" ->
                   DynamicOver(clause, Unwrap(clause.action.left),
                       DynamicOver(clause, Unwrap(clause.action.right), inner, None),
                       clause.composition)
              [] op = "Choice" ->
                   SetComposition(
                       DynamicOver(clause, Unwrap(clause.action.left), inner, None),
                       ClauseComposition("And",
                           DynamicOver(clause, Unwrap(clause.action.right), inner,
                                       clause.composition)))
              [] op = "Negation" -> ProcessNegationComposedActions(clause)
              [] OTHER -> clause
    ELSE clause

\* ClauseDecomposer::process_single_composed_actions
ProcessSingleComposedActions(clause) ==
    CASE clause.kind = "Boolean" -> clause
      [] clause.kind = "Deontic" ->
           IF clause.action.kind = "Basic" THEN clause
           ELSE ProcessDeonticComposedActions(clause)
      [] clause.kind = "Dynamic" ->
           IF clause.action.kind = "Basic" THEN clause
           ELSE ProcessDynamicComposedActions(clause)

\* ClauseDecomposer::process_composed_actions: one rewrite of every head of
\* the spine, the rewritten heads re-joined by the original connectives.
RECURSIVE ProcessComposedActions(_)
ProcessComposedActions(clause) ==
    IF IsSome(clause.composition)
    THEN AppendComposition(ProcessSingleComposedActions(SetCompositionToNone(clause)),
                           ProcessComposedActions(Unwrap(clause.composition).other),
                           Unwrap(clause.composition).composition_type)
    ELSE ProcessSingleComposedActions(clause)

(***************************************************************************)
(* algorithms/clause_decomposer.rs : the one-step residual                 *)
(***************************************************************************)

\* ClauseDecomposer::generate_relativized_actions (ignore_self_actions is
\* always true where the constructor builds the decomposer).
GenerateRelativizedActions(clause, individuals) ==
    LET ignore == Cardinality(individuals) > 1
        basic_actions == GetBasicActions(clause.action)
    IN CASE clause.kind = "Boolean" -> {}
         [] clause.rtype = "Directed" ->
              {RelativizedAction(clause.sender, ba, clause.receiver) : ba \in basic_actions}
         [] clause.rtype = "Relativized" ->
              {RelativizedAction(clause.sender, ba, j) :
                  ba \in basic_actions,
                  j \in {x \in individuals : ~(ignore /\ clause.sender = x)}}
         [] clause.rtype = "Global" ->
              {RelativizedAction(p[1], ba, p[2]) :
                  ba \in basic_actions,
                  p \in {q \in individuals \X individuals : ~(ignore /\ q[1] = q[2])}}

\* A violated deontic clause that never goes to its penalty.
PenaltyIgnored(clause) == BooleanFalse

\* The penalty of a deontic clause, or false when it has none.
PenaltyOrFalse(clause) ==
    IF IsSome(clause.penalty) THEN Unwrap(clause.penalty) ELSE BooleanFalse

\* ClauseDecomposer::decompose_dynamic (basic action)
DecomposeDynamic(clause, actions, individuals) ==
    IF clause.kind = "Dynamic" /\ clause.action.kind = "Basic"
    THEN IF clause.action.skip THEN Unwrap(clause.clause)
         ELSE LET clause_actions == GenerateRelativizedActions(clause, individuals)
                  has_intersection == \E a \in actions : a \in clause_actions
                  sat0 == IF clause.rtype = "Relativized" THEN has_intersection
                          ELSE \A ca \in clause_actions : ca \in actions
                  sat == IF clause.action.negation THEN ~sat0 ELSE sat0
              IN IF sat THEN Unwrap(clause.clause) ELSE BooleanTrue
    ELSE clause

\* ClauseDecomposer::decompose_deontic_special (SKIP and VIOLATION)
DecomposeDeonticSpecial(clause) ==
    CASE clause.dtype = "Obligation" ->
           IF clause.action.skip THEN BooleanTrue ELSE PenaltyOrFalse(clause)
      [] clause.dtype = "Prohibition" ->
           IF clause.action.violation THEN BooleanTrue ELSE PenaltyOrFalse(clause)
      [] clause.dtype = "Permission" -> BooleanTrue

\* decompose_deontic with an obligation that wants all of its actions
\* under every relativization.
DecomposeDeonticOfAll(clause, actions, individuals) ==
    IF clause.kind = "Deontic" /\ clause.action.kind = "Basic"
    THEN IF clause.action.violation \/ clause.action.skip
         THEN DecomposeDeonticSpecial(clause)
         ELSE LET clause_actions == GenerateRelativizedActions(clause, individuals)
              IN CASE clause.dtype = "Obligation" ->
                        IF \A ca \in clause_actions : ca \in actions
                        THEN BooleanTrue ELSE PenaltyOrFalse(clause)
                   [] clause.dtype = "Prohibition" ->
                        IF \A ca \in clause_actions : ca \notin actions
                        THEN BooleanTrue ELSE PenaltyOrFalse(clause)
                   [] clause.dtype = "Permission" -> BooleanTrue
    ELSE clause

\* ClauseDecomposer::decompose_deontic (basic action)
DecomposeDeontic(clause, actions, individuals) ==
    IF clause.kind = "Deontic" /\ clause.action.kind = "Basic"
    THEN IF clause.action.violation \/ clause.action.skip
         THEN DecomposeDeonticSpecial(clause)
         ELSE LET clause_actions == GenerateRelativizedActions(clause, individuals)
                  intersection == {a \in actions : a \in clause_actions}
              IN CASE clause.dtype = "Obligation" ->
                        LET satisfied ==
                              IF clause.rtype = "Relativized" THEN intersection # {}
                              ELSE \A ca \in clause_actions : ca \in actions
                        IN IF satisfied THEN BooleanTrue ELSE PenaltyOrFalse(clause)
                   [] clause.dtype = "Prohibition" ->
                        IF intersection = {} THEN BooleanTrue ELSE PenaltyOrFalse(clause)
                   [] clause.dtype = "Permission" -> BooleanTrue
    ELSE clause

\* ClauseDecomposer::evaluate_boolean
EvaluateBoolean(v1, v2, comp_type) ==
    LET result == CASE comp_type = "And" -> v1 /\ v2
                    [] comp_type = "Or" -> v1 \/ v2
                    [] comp_type = "Xor" -> (v1 /\ ~v2) \/ (~v1 /\ v2)
                    [] OTHER -> FALSE
    IN IF result THEN BooleanTrue ELSE BooleanFalse

\* ClauseDecomposer::combine_clause: c2 is the Boolean operand.
CombineClause(c1, c2, comp_type) ==
    IF IsBoolean(c2)
    THEN CASE comp_type = "And" -> IF c2.value THEN c1 ELSE c2
           [] comp_type \in {"Or", "Xor"} ->
                SetComposition(c1, ClauseComposition(comp_type, c2))
           [] OTHER -> c1
    ELSE c1

\* ClauseDecomposer::combine
Combine(c1, c2, comp_type) ==
    CASE IsBoolean(c1) /\ IsBoolean(c2) -> EvaluateBoolean(c1.value, c2.value, comp_type)
      [] IsBoolean(c1) /\ ~IsBoolean(c2) -> CombineClause(c2, c1, comp_type)
      [] ~IsBoolean(c1) /\ IsBoolean(c2) -> CombineClause(c1, c2, comp_type)
      [] OTHER -> IF Contains(c2, comp_type, c1) THEN c2
                  ELSE SetComposition(c1, ClauseComposition(comp_type, c2))

\* Whether decompose fails to return on `clause`: decompose_single
\* elaborates a composed head and decomposes the result again, so a head
\* that comes back in its own elaboration (at once in the
\* `_ => clause.clone()` arms, or after some rewrites) is decomposed without
\* end, whatever the action set. `seen` holds the composed heads on the way.
RECURSIVE DecomposeDivergesFrom(_, _)
DecomposeSingleDiverges(head, seen) ==
    /\ head.kind # "Boolean"
    /\ IsComposedAction(head.action)
    /\ \/ head \in seen
       \/ DecomposeDivergesFrom(ProcessComposedActions(head), seen \cup {head})

DecomposeDivergesFrom(clause, seen) ==
    \/ DecomposeSingleDiverges(SetCompositionToNone(clause), seen)
    \/ /\ IsSome(clause.composition)
       /\ DecomposeDivergesFrom(Unwrap(clause.composition).other, seen)

DecomposeDiverges(clause) == DecomposeDivergesFrom(clause, {})

\* ClauseDecomposer::decompose and ClauseDecomposer::decompose_single, on a
\* clause on which they return.
RECURSIVE Decompose(_, _, _)
DecomposeSingle(clause, actions, individuals) ==
    CASE clause.kind = "Boolean" -> clause
      [] clause.kind # "Boolean" /\ IsComposedAction(clause.action) ->
           Decompose(ProcessComposedActions(clause), actions, individuals)
      [] clause.kind = "Deontic" /\ ~IsComposedAction(clause.action) ->
           DecomposeDeontic(clause, actions, individuals)
      [] clause.kind = "Dynamic" /\ ~IsComposedAction(clause.action) ->
           DecomposeDynamic(clause, actions, individuals)

Decompose(clause, actions, individuals) ==
    IF IsSome(clause.composition)
    THEN Combine(DecomposeSingle(SetCompositionToNone(clause), actions, individuals),
                 Decompose(Unwrap(clause.composition).other, actions, individuals),
                 Unwrap(clause.composition).composition_type)
    ELSE DecomposeSingle(clause, actions, individuals)

(***************************************************************************)
(* utils.rs : ContractUtil, the concurrency enumerator                     *)
(***************************************************************************)

Conflict(a, b, conflict_type) == [a |-> a, b |-> b, conflict_type |-> conflict_type]

\* A validity test that asks for a common sender under a Global conflict
\* too.
IsValidBySender(actions, conflicts) ==
    /\ actions # {}
    /\ \A conflict \in conflicts :
          ~\E ra_a \in actions : \E ra_b \in actions :
               /\ ra_a.action.value = conflict.a.value
               /\ ra_b.action.value = conflict.b.value
               /\ ra_b.sender = ra_a.sender

\* ContractUtil::is_valid
IsValid(actions, conflicts) ==
    /\ actions # {}
    /\ \A conflict \in conflicts :
          LET as == {ra \in actions : ra.action.value = conflict.a.value}
              bs == {ra \in actions : ra.action.value = conflict.b.value}
          IN \/ as = {}
             \/ bs = {}
             \/ /\ conflict.conflict_type # "Global"
                /\ ~(conflict.conflict_type = "Relativized"
                     /\ \E ra_a \in as : \E ra_b \in bs : ra_b.sender = ra_a.sender)

\* The capacity of the subset enumeration (utils.rs: `if n > 30`).
MaxConcurrentActions == 30

Pow2(n) == 2 ^ n
Bit(mask, idx) == (mask \div Pow2(idx)) % 2 = 1
CountOnes(mask, n) == Cardinality({i \in 0 .. n - 1 : Bit(mask, i)})

\* The decoding loop shared by the enumerator, the constructor and
\* Transition::actions: the actions of source_map at the set bits of mask.
DecodeMask(mask, source_map) ==
    {source_map[i + 1] : i \in {k \in 0 .. Len(source_map) - 1 : Bit(mask, k)}}

\* The iteration order of a hash set: fixed for a given set, otherwise
\* unspecified.
RECURSIVE SetToSeq(_)
SetToSeq(S) ==
    IF S = {} THEN << >>
    ELSE LET x == CHOOSE y \in S : TRUE IN << x >> \o SetToSeq(S \ {x})

\* valid_masks.sort_by(count_ones descending), a stable sort of the
\* increasing enumeration: the mask at position i is the one with i masks
\* at or before it.
ByCountOnesDescending(M, n) ==
    CHOOSE sorted \in
        {[i \in 1 .. Cardinality(M) |-> CHOOSE m \in M : rank[m] = i] :
            rank \in {[m \in M |->
                         Cardinality({x \in M :
                             \/ ones[x] > ones[m]
                             \/ ones[x] = ones[m] /\ x <= m})] :
                      ones \in {[m \in M |-> CountOnes(m, n)]}}} : TRUE

CompressedConcurrentActions(source_map, valid_masks) ==
    [source_map |-> source_map, valid_masks |-> valid_masks]

\* An enumerator that, over its capacity, returns no masks instead of
\* panicking.
CalculateConcurrentActionsRecovering(relativized_actions, conflicts) ==
    LET n == Cardinality(relativized_actions)
    IN IF n > MaxConcurrentActions
       THEN Some(CompressedConcurrentActions(SetToSeq(relativized_actions), << >>))
       ELSE LET src == SetToSeq(relativized_actions)
                valid == {mask \in 0 .. Pow2(n) - 1 :
                             IsValid(DecodeMask(mask, src), conflicts)}
            IN Some(CompressedConcurrentActions(src, ByCountOnesDescending(valid, n)))

\* ContractUtil::calculate_concurrent_relativized_actions; None when it
\* panics on more than 30 actions.
CalculateConcurrentActions(relativized_actions, conflicts) ==
    LET n == Cardinality(relativized_actions)
    IN IF n > MaxConcurrentActions THEN None
       ELSE LET src == SetToSeq(relativized_actions)
                valid == {mask \in 0 .. Pow2(n) - 1 :
                             IsValid(DecodeMask(mask, src), conflicts)}
            IN Some(CompressedConcurrentActions(src, ByCountOnesDescending(valid, n)))

(***************************************************************************)
(* algorithms/action_extractor.rs                                          *)
(***************************************************************************)

\* ActionExtractor::calculate_relativized_actions: a Boolean head returns
\* the empty set at once; any other head adds the actions of the rest of
\* the spine to its own.
RECURSIVE CalculateRelativizedActions(_, _)
CalculateRelativizedActions(clause, indiv) ==
    IF IsBoolean(clause) THEN {}
    ELSE GenerateRelativizedActions(SetCompositionToNone(clause), indiv)
         \cup (IF IsSome(clause.composition)
               THEN CalculateRelativizedActions(Unwrap(clause.composition).other, indiv)
               ELSE {})

\* The single-action case with the mask one bit beyond the appended
\* negation.
AppendNegationBeyond(compressed) ==
    IF Len(compressed.source_map) = 1
    THEN CompressedConcurrentActions(
             Append(compressed.source_map,
                    RelativizedNegation(compressed.source_map[1])),
             Append(compressed.valid_masks, Pow2(2)))
    ELSE compressed

\* The single-action case with the mask of the negation pushed and the
\* negation itself left out of the source map.
AppendNegationMaskOnly(compressed) ==
    IF Len(compressed.source_map) = 1
    THEN CompressedConcurrentActions(compressed.source_map,
             Append(compressed.valid_masks, Pow2(Len(compressed.source_map))))
    ELSE compressed

\* The single-action case of
\* ActionExtractor::calculate_concurrent_relativized_actions: the negation
\* of the only action is appended with a mask of its own.
AppendNegation(compressed) ==
    IF Len(compressed.source_map) = 1
    THEN LET source_map == Append(compressed.source_map,
                                  RelativizedNegation(compressed.source_map[1]))
             new_index == Len(source_map) - 1
         IN CompressedConcurrentActions(source_map,
                Append(compressed.valid_masks, Pow2(new_index)))
    ELSE compressed

\* ActionExtractor::calculate_concurrent_relativized_actions on a cache
\* miss: None when the enumeration panics.
ComputeConcurrentRelativizedActions(processed, indiv, conflicts) ==
    LET actions == CalculateRelativizedActions(processed, indiv)
        compressed == CalculateConcurrentActions(actions, conflicts)
    IN IF IsSome(compressed) THEN Some(AppendNegation(Unwrap(compressed))) ELSE None

\* ActionExtractor::extract_individuals
RECURSIVE ExtractIndividuals(_)
ExtractIndividuals(clause) ==
    (IF clause.receiver > 0 THEN {clause.receiver} ELSE {})
    \cup (IF clause.sender > 0 THEN {clause.sender} ELSE {})
    \cup (IF IsSome(clause.composition)
          THEN ExtractIndividuals(Unwrap(clause.composition).other) ELSE {})

\* ActionExtractor::calculate_individuals: one individual of the contract
\* (the first the set's iteration yields) when the spine names none.
CalculateIndividuals(clause, all_individuals) ==
    LET i == ExtractIndividuals(clause)
    IN IF i = {} /\ all_individuals # {}
       THEN {CHOOSE x \in all_individuals : TRUE}
       ELSE i

(***************************************************************************)
(* algorithms/conflict_searcher.rs                                         *)
(***************************************************************************)

DeonticTag(deontic_type, action, relativization, sender, receiver) ==
    [deontic_type |-> deontic_type, action |-> action,
     relativization |-> relativization, sender |-> sender, receiver |-> receiver]

TagDirected(deontic_type, action, sender, receiver) ==
    DeonticTag(deontic_type, action, "Directed", sender, receiver)
TagRelativized(deontic_type, action, sender) ==
    DeonticTag(deontic_type, action, "Relativized", sender, -1)
TagGlobal(deontic_type, action) ==
    DeonticTag(deontic_type, action, "Global", -1, -1)

\* ConflictSearcher::extract_tags: one tag set per deontic head of the
\* spine, whatever the connectives.
RECURSIVE ExtractTags(_)
ExtractTags(clause) ==
    (IF clause.kind = "Deontic"
     THEN << {CASE clause.rtype = "Global" -> TagGlobal(clause.dtype, ba)
                [] clause.rtype = "Relativized" ->
                     TagRelativized(clause.dtype, ba, clause.sender)
                [] clause.rtype = "Directed" ->
                     TagDirected(clause.dtype, ba, clause.sender, clause.receiver) :
              ba \in GetBasicActions(clause.action)} >>
     ELSE << >>)
    \o (IF IsSome(clause.composition)
        THEN ExtractTags(Unwrap(clause.composition).other) ELSE << >>)

\* generate_relativized_tags that takes the tags of every sender.
GenerateRelativizedTagsOfAnyone(deontic_type, action, sender, individuals) ==
    {TagGlobal(deontic_type, action)}
    \cup {TagRelativized(deontic_type, action, i) : i \in individuals}
    \cup {TagDirected(deontic_type, action, i, j) :
            i \in individuals, j \in individuals}

\* ConflictSearcher::generate_relativized_tags
GenerateRelativizedTags(deontic_type, action, sender, individuals) ==
    {TagGlobal(deontic_type, action), TagRelativized(deontic_type, action, sender)}
    \cup {TagDirected(deontic_type, action, sender, receiver) : receiver \in individuals}

\* ConflictSearcher::generate_tags_by_type
GenerateTagsByType(deontic_type, tag, individuals) ==
    CASE tag.relativization = "Global" ->
           {TagGlobal(deontic_type, tag.action)}
           \cup {TagRelativized(deontic_type, tag.action, i) : i \in individuals}
           \cup {TagDirected(deontic_type, tag.action, i, j) :
                   i \in individuals, j \in individuals}
      [] tag.relativization = "Relativized" ->
           {TagGlobal(deontic_type, tag.action),
            TagRelativized(deontic_type, tag.action, tag.sender)}
           \cup {TagDirected(deontic_type, tag.action, tag.sender, j) : j \in individuals}
      [] tag.relativization = "Directed" ->
           {TagGlobal(deontic_type, tag.action),
            TagRelativized(deontic_type, tag.action, tag.sender),
            TagDirected(deontic_type, tag.action, tag.sender, tag.receiver)}

\* ConflictSearcher::get_predefined_conflicts
GetPredefinedConflicts(tag, types, individuals, conflicts) ==
    UNION {
        IF conflict.a # tag.action THEN {}
        ELSE UNION {
               IF conflict.conflict_type = "Global" \/ tag.relativization = "Global"
               THEN GenerateTagsByType(deontic_type,
                        TagGlobal(deontic_type, conflict.b), individuals)
               ELSE GenerateRelativizedTags(deontic_type, conflict.b, tag.sender,
                                            individuals) :
               deontic_type \in types} :
        conflict \in conflicts}

\* A conflict set that holds the catalogue's conflicts only, without the
\* tags of the opposite deontic type on the same action.
GenerateConflictSetOfCatalogue(tag, individuals, conflicts) ==
    IF tag.deontic_type = "Prohibition" THEN {}
    ELSE GetPredefinedConflicts(tag, {"Obligation"} \cup
                                     (IF tag.deontic_type = "Obligation"
                                      THEN {"Permission"} ELSE {}),
                                individuals, conflicts)

\* ConflictSearcher::generate_conflict_set
GenerateConflictSet(tag, individuals, conflicts) ==
    CASE tag.deontic_type = "Obligation" ->
           GenerateTagsByType("Prohibition", tag, individuals)
           \cup GetPredefinedConflicts(tag, {"Obligation", "Permission"},
                                       individuals, conflicts)
      [] tag.deontic_type = "Permission" ->
           GenerateTagsByType("Prohibition", tag, individuals)
           \cup GetPredefinedConflicts(tag, {"Obligation"}, individuals, conflicts)
      [] tag.deontic_type = "Prohibition" ->
           GenerateTagsByType("Obligation", tag, individuals)
           \cup GenerateTagsByType("Permission", tag, individuals)

\* The element of a one-element set.
Only(S) == CHOOSE x \in S : TRUE

\* ConflictInformation::new
ConflictInformation(tag, conflicting_tags, other_set) ==
    [tag |-> tag, conflicting_tags |-> conflicting_tags, other_set |-> other_set]

\* What the loops of ConflictSearcher::has_conflict can stop at: tag sets
\* i # j of delta and a tag of the i-th whose conflict set meets the j-th.
ConflictCandidates(delta, individuals, conflicts) ==
    {cand \in {[i |-> t[1], j |-> t[2],
                info |-> ConflictInformation(t[3],
                             GenerateConflictSet(t[3], individuals, conflicts)
                                 \cap delta[t[2]],
                             delta[t[2]])] :
               t \in UNION {{<< i, j, tag >> : tag \in delta[i]} :
                               i \in DOMAIN delta, j \in DOMAIN delta}} :
        cand.i # cand.j /\ cand.info.conflicting_tags # {}}

\* The candidate the loops reach first: the least (i, j); which tag of the
\* i-th set comes first is the set's iteration order.
FirstCandidate(cands) ==
    IF cands = {} THEN None
    ELSE Some((CHOOSE c \in cands :
                  \A u \in cands : c.i < u.i \/ (c.i = u.i /\ c.j <= u.j)).info)

\* ConflictSearcher::has_conflict: the ConflictInformation it attaches to
\* the state, None when it finds no conflict.
FindConflict(clause, individuals, conflicts) ==
    Only({FirstCandidate(ConflictCandidates(delta, individuals, conflicts)) :
             delta \in {ExtractTags(ProcessComposedActions(clause))}})

\* ConflictSearcher::has_conflict, its Boolean result
HasConflict(clause, individuals, conflicts) ==
    IsSome(FindConflict(clause, individuals, conflicts))

(***************************************************************************)
(* model/contracts.rs : Contract                                           *)
(***************************************************************************)

\* Whether Display of the action starts with "!".
RECURSIVE StartsWithBang(_)
StartsWithBang(action) ==
    IF action.kind = "Basic"
    THEN ~action.skip /\ ~action.violation /\ action.negation
    ELSE CASE action.operator = "Negation" -> TRUE
           [] action.operator = "Star" -> StartsWithBang(Unwrap(action.left))
           [] OTHER -> FALSE

\* Whether Display of the clause contains "[!": some dynamic clause in it
\* prints an action that starts with "!".
RECURSIVE PrintsNegatedGuard(_)
PrintsNegatedGuard(c) ==
    \/ c.kind = "Dynamic" /\ StartsWithBang(c.action)
    \/ IsSome(c.penalty) /\ PrintsNegatedGuard(Unwrap(c.penalty))
    \/ IsSome(c.clause) /\ PrintsNegatedGuard(Unwrap(c.clause))
    \/ IsSome(c.composition) /\ PrintsNegatedGuard(Unwrap(c.composition).other)

\* Whether Display of the clause contains the name of the deontic type.
RECURSIVE PrintsDeontic(_, _)
PrintsDeontic(c, dtype) ==
    \/ c.kind = "Deontic" /\ c.dtype = dtype
    \/ IsSome(c.penalty) /\ PrintsDeontic(Unwrap(c.penalty), dtype)
    \/ IsSome(c.clause) /\ PrintsDeontic(Unwrap(c.clause), dtype)
    \/ IsSome(c.composition) /\ PrintsDeontic(Unwrap(c.composition).other, dtype)

\* Contract::clause_category
ClauseCategory(c) ==
    CASE PrintsNegatedGuard(c) -> 0
      [] PrintsDeontic(c, "Prohibition") -> 1
      [] PrintsDeontic(c, "Obligation") -> 2
      [] OTHER -> 3

\* Contract::extract_from_clause, the individuals it collects.
RECURSIVE IndividualsOf(_)
IndividualsOf(c) ==
    (IF c.kind # "Boolean" /\ c.sender >= 0 THEN {c.sender} ELSE {})
    \cup (IF c.kind # "Boolean" /\ c.receiver >= 0 THEN {c.receiver} ELSE {})
    \cup (IF IsSome(c.penalty) THEN IndividualsOf(Unwrap(c.penalty)) ELSE {})
    \cup (IF IsSome(c.clause) THEN IndividualsOf(Unwrap(c.clause)) ELSE {})
    \cup (IF IsSome(c.composition) THEN IndividualsOf(Unwrap(c.composition).other) ELSE {})

\* Contract::with_clauses plus the two conflict lists the parser fills.
\* `clauses` lists the clause set in the order of java_string_hashcode of
\* the printed clauses.
Contract(clauses, global_conflicts, relativized_conflicts) ==
    [clauses |-> clauses,
     global_conflicts |-> global_conflicts,
     relativized_conflicts |-> relativized_conflicts,
     individuals |-> UNION {IndividualsOf(clauses[i]) : i \in DOMAIN clauses}]

\* Contract::get_all_conflicts
GetAllConflicts(contract) ==
    {Conflict(p[1], p[2], "Global") : p \in contract.global_conflicts}
    \cup {Conflict(p[1], p[2], "Relativized") : p \in contract.relativized_conflicts}

\* The sort of Contract::get_full_contract: by category, then by hash.
RECURSIVE SortByCategory(_, _)
SortByCategory(clauses, category) ==
    IF category > 3 THEN << >>
    ELSE SelectSeq(clauses, LAMBDA c : ClauseCategory(c) = category)
         \o SortByCategory(clauses, category + 1)

\* Contract::append_clause_recursive
AppendClauseRecursive(target, other) == AppendComposition(target, other, "And")

\* Contract::get_full_contract
RECURSIVE FoldClauses(_, _)
FoldClauses(head, rest) ==
    IF rest = << >> THEN head
    ELSE FoldClauses(AppendClauseRecursive(head, Head(rest)), Tail(rest))

GetFullContract(contract) ==
    IF contract.clauses = << >> THEN None
    ELSE LET sorted == SortByCategory(contract.clauses, 0)
         IN Some(FoldClauses(Head(sorted), Tail(sorted)))

(***************************************************************************)
(* model/automata.rs                                                       *)
(***************************************************************************)

\* State::with_auto_id, given the value drawn from STATE_COUNTER
State(id, clause) ==
    [id |-> id, clause |-> clause, situation |-> "NotChecked",
     conflict_information |-> None, trace |-> << >>]

\* Transition::new, given the value drawn from TRANSITION_COUNTER
Transition(id, from, to, mask, source_map) ==
    [id |-> id, from |-> from, to |-> to, mask |-> mask, source_map |-> source_map]

\* A map with one more (or one replaced) entry.
MapInsert(map, key, value) ==
    [k \in DOMAIN map \cup {key} |-> IF k = key THEN value ELSE map[k]]

EmptyMap == [k \in {} |-> 0]

\* Automaton::new
NewAutomaton(full_contract, id) ==
    [states |-> IF IsSome(full_contract)
                THEN MapInsert(EmptyMap, id, State(id, full_contract))
                ELSE EmptyMap,
     initial |-> IF IsSome(full_contract) THEN Some(State(id, full_contract)) ELSE None,
     transitions |-> {},
     conflict_found |-> FALSE,
     state_map |-> IF IsSome(full_contract)
                   THEN MapInsert(EmptyMap, Unwrap(full_contract), id)
                   ELSE EmptyMap]

\* Automaton::add_state
AddState(a, state) ==
    [a EXCEPT !.state_map = IF IsSome(state.clause)
                            THEN MapInsert(@, Unwrap(state.clause), state.id) ELSE @,
              !.states = IF state.id \in DOMAIN @ THEN @
                         ELSE MapInsert(@, state.id, state)]

\* A transition set that takes two transitions with the same ends for the
\* same element: the second one is not inserted.
AddTransitionByEnds(a, transition) ==
    IF \E t \in a.transitions : t.from = transition.from /\ t.to = transition.to
    THEN a
    ELSE [a EXCEPT !.transitions = @ \cup {transition}]

\* Automaton::add_transition
AddTransition(a, transition) ==
    [a EXCEPT !.transitions = @ \cup {transition}]

\* A lookup in the clause index that always misses.
GetStateByClauseMisses(a, clause) == None

\* Automaton::get_state_by_clause
GetStateByClause(a, clause) ==
    IF clause \in DOMAIN a.state_map /\ a.state_map[clause] \in DOMAIN a.states
    THEN Some(a.states[a.state_map[clause]])
    ELSE None

\* An update that is lost: the automaton keeps the state it had.
ReplaceStateDropped(a, state) == a

\* Automaton::update_state / get_state_by_id_mut followed by replace_state:
\* the state of that id is taken out, changed and put back, and the clause
\* index entry of its clause is removed and re-inserted.
ReplaceState(a, state) ==
    IF state.id \in DOMAIN a.states
    THEN [a EXCEPT !.states = MapInsert(@, state.id, state),
                   !.state_map = IF IsSome(state.clause)
                                 THEN MapInsert(@, Unwrap(state.clause), state.id)
                                 ELSE @]
    ELSE a

(***************************************************************************)
(* utils.rs: the symbol table                                              *)
(***************************************************************************)

\* Symbol::new
Symbol(id, value, symbol_type) ==
    [id |-> id, value |-> value, symbol_type |-> symbol_type]

\* SymbolTable::new ; lookup maps (value, symbol_type) to an id.
NewSymbolTable == [id_base |-> 1, dictionary |-> << >>, lookup |-> EmptyMap]

\* SymbolTable::add_symbol: the table afterwards, and the id it returns.
AddSymbol(table, value, symbol_type) ==
    IF << value, symbol_type >> \in DOMAIN table.lookup
    THEN [table |-> table, id |-> table.lookup[<< value, symbol_type >>]]
    ELSE [table |-> [id_base |-> table.id_base + 1,
                     dictionary |-> Append(table.dictionary,
                                        Symbol(table.id_base, value, symbol_type)),
                     lookup |-> MapInsert(table.lookup, << value, symbol_type >>,
                                          table.id_base)],
          id |-> table.id_base]

\* A clear that empties the dictionary and keeps the lookup.
ClearDictionaryOnly(table) ==
    [id_base |-> 1, dictionary |-> << >>, lookup |-> table.lookup]

\* SymbolTable::clear
Clear(table) == [id_base |-> 1, dictionary |-> << >>, lookup |-> EmptyMap]

\* The table after the parser met the names of the model's contracts, in the
\* order of their ids.
RECURSIVE AddSymbols(_, _)
AddSymbols(table, names) ==
    IF names = << >> THEN table
    ELSE AddSymbols(AddSymbol(table, names[1][1], names[1][2]).table, Tail(names))

ParsedSymbols ==
    AddSymbols(NewSymbolTable,
               << << "alice", "Individual" >>, << "bob", "Individual" >>,
                  << "a", "Action" >>, << "b", "Action" >>, << "c", "Action" >>,
                  << "d", "Action" >>, << "carol", "Individual" >>,
                  << "dave", "Individual" >> >>)

(***************************************************************************)
(* algorithms/automata_constructor.rs                                      *)
(***************************************************************************)

VARIABLES
    pc,               \* where AutomataConstructor::process is
    config,           \* RunConfiguration: continue_on_conflict, use_prunning
    current_contract, \* AutomataConstructor.current_contract
    extractor,        \* AutomataConstructor.extractor: conflicts and cache
    automaton,        \* AutomataConstructor.automaton
    stack,            \* the activations of construct_automaton, innermost last
    counters,         \* STATE_COUNTER and TRANSITION_COUNTER
    input,            \* the contract handed to process
    result,           \* what process returned
    arg,              \* the argument of a function applied on its own
    out,              \* the value it returned
    previous,         \* what the earlier calls of process returned
    symbols           \* the SymbolTable singleton

vars == << pc, config, current_contract, extractor, automaton, stack, counters,
           input, result, arg, out, previous, symbols >>

\* The variables only the runs of single functions use.
probe == << arg, out, symbols >>

\* const BATCH_SIZE in construct_automaton. The source has 500; the model
\* scales it down so that the contracts it runs on fill more than one chunk.
BATCH_SIZE == 2

\* The threads of the pool that runs par_iter.
NumWorkers == 2
Workers == 1 .. NumWorkers

\* One activation of construct_automaton(state_id). `label` is where it is:
\*   "enter"     before anything was done,
\*   "batch"     the workers are computing the current chunk,
\*   "integrate" the main thread walks batch_results.
\* `chunk` counts the chunks done, `claimed` the positions of the chunk a
\* worker has taken, `jobs` the position each worker is computing,
\* `batch_results` what was collected, `next` the position to integrate.
Frame(state_id) ==
    [state_id |-> state_id, label |-> "enter", individuals |-> {},
     compressed_actions |-> CompressedConcurrentActions(<< >>, << >>),
     chunk |-> 0, claimed |-> 0, jobs |-> [w \in Workers |-> None],
     batch_results |-> << >>, next |-> 1]

Min(x, y) == IF x <= y THEN x ELSE y

\* masks.chunks(BATCH_SIZE): the number of chunks and the length of one.
NumChunks(masks) == (Len(masks) + BATCH_SIZE - 1) \div BATCH_SIZE
ChunkLen(masks, chunk) == Min(BATCH_SIZE, Len(masks) - chunk * BATCH_SIZE)
ChunkMask(masks, chunk, position) == masks[chunk * BATCH_SIZE + position]

\* A frame at the start of the given chunk.
StartChunk(frame, chunk) ==
    [frame EXCEPT !.label = "batch", !.chunk = chunk, !.claimed = 0,
                  !.jobs = [w \in Workers |-> None],
                  !.batch_results =
                      [p \in 1 .. ChunkLen(frame.compressed_actions.valid_masks, chunk)
                          |-> None],
                  !.next = 1]

Top == stack[Len(stack)]
Pop(stk) == SubSeq(stk, 1, Len(stk) - 1)
ReplaceTop(stk, frame) == [stk EXCEPT ![Len(stk)] = frame]

TheAutomaton == Unwrap(automaton)
TopState == TheAutomaton.states[Top.state_id]

\* AutomataConstructor::get_individuals
GetIndividuals(clause) ==
    IF config.use_prunning
    THEN CalculateIndividuals(clause, Unwrap(current_contract).individuals)
    ELSE Unwrap(current_contract).individuals

\* mark_boolean_state that marks the initial state instead of the given one.
MarkBooleanStateOfInitial(a, state_id, value) ==
    ReplaceState(a, [a.states[Unwrap(a.initial).id] EXCEPT
                        !.situation = IF value THEN "Satisfaction" ELSE "Violating"])

\* AutomataConstructor::mark_boolean_state
MarkBooleanState(a, state_id, value) ==
    ReplaceState(a, [a.states[state_id] EXCEPT
                        !.situation = IF value THEN "Satisfaction" ELSE "Violating"])

\* A conflict check that keeps what it found in the state and leaves the
\* automaton's flag as it was.
CheckConflictUnflagged(a, state_id, individuals) ==
    Only({ReplaceState(a, [a.states[state_id] EXCEPT
                              !.situation = IF IsSome(found) THEN "Conflicting"
                                            ELSE "ConflictFree",
                              !.conflict_information = IF IsSome(found)
                                                       THEN Some(Unwrap(found))
                                                       ELSE @]) :
          found \in {FindConflict(Unwrap(a.states[state_id].clause), individuals,
                                  GetAllConflicts(Unwrap(current_contract)))}})

\* AutomataConstructor::check_conflict_without_clone followed by the
\* assignment of conflict_found.
CheckConflict(a, state_id, individuals) ==
    Only({[ReplaceState(a, [a.states[state_id] EXCEPT
                               !.situation = IF IsSome(found) THEN "Conflicting"
                                             ELSE "ConflictFree",
                               !.conflict_information = IF IsSome(found)
                                                        THEN Some(Unwrap(found))
                                                        ELSE @])
             EXCEPT !.conflict_found = @ \/ IsSome(found)] :
          found \in {FindConflict(Unwrap(a.states[state_id].clause), individuals,
                                  GetAllConflicts(Unwrap(current_contract)))}})

ShouldStop(a) == a.conflict_found /\ ~config.continue_on_conflict

\* generate_actions with a cache that hands an entry back with its source
\* map in the opposite order.
GenerateActionsReversedOnHit(processed, individuals) ==
    IF processed \in DOMAIN Unwrap(extractor).cache
    THEN Some(Only({[cached EXCEPT !.source_map =
                        [i \in DOMAIN @ |-> @[Len(@) + 1 - i]]] :
                    cached \in {Unwrap(extractor).cache[processed]}}))
    ELSE ComputeConcurrentRelativizedActions(processed, individuals,
                                             Unwrap(extractor).conflicts)

\* AutomataConstructor::generate_actions, given the elaborated clause: its
\* cached entry, or what the extractor computes; None when the enumeration
\* panics.
GenerateActions(processed, individuals) ==
    IF processed \in DOMAIN Unwrap(extractor).cache
    THEN Some(Unwrap(extractor).cache[processed])
    ELSE ComputeConcurrentRelativizedActions(processed, individuals,
                                             Unwrap(extractor).conflicts)

\* AutomataConstructor::process on a contract without clauses: the automaton
\* has no initial state and nothing is constructed.
ProcessEmpty ==
    /\ pc = "idle"
    /\ ~IsSome(GetFullContract(input))
    /\ extractor' = IF IsSome(extractor) THEN extractor
                    ELSE Some([conflicts |-> GetAllConflicts(input), cache |-> EmptyMap])
    /\ result' = Some(NewAutomaton(None, counters.state))
    /\ current_contract' = None
    /\ pc' = "returned"
    /\ UNCHANGED << probe, previous, config, automaton, stack, counters, input >>

\* AutomataConstructor::process up to the call of construct_automaton on the
\* initial state.
Process ==
    /\ pc = "idle"
    /\ IsSome(GetFullContract(input))
    /\ current_contract' = Some(input)
    /\ extractor' = IF IsSome(extractor) THEN extractor
                    ELSE Some([conflicts |-> GetAllConflicts(input), cache |-> EmptyMap])
    /\ automaton' = Some(NewAutomaton(GetFullContract(input), counters.state))
    /\ counters' = [counters EXCEPT !.state = @ + 1]
    /\ stack' = << Frame(counters.state) >>
    /\ pc' = "constructing"
    /\ UNCHANGED << probe, previous, config, input, result >>

\* The construct_automaton activations that are at `label`, each with the
\* automaton, the state it is about and that state's clause, as values.
AtLabel(label) ==
    IF pc = "constructing" /\ stack # << >> /\ Top.label = label
    THEN {[automaton |-> TheAutomaton, frame |-> Top, state |-> TopState]}
    ELSE {}

\* `if let Some(x) = o`
Elems(o) == {o[i] : i \in DOMAIN o}

\* construct_automaton on a state without clause or with a Boolean clause.
ConstructBoolean ==
    /\ \E at \in AtLabel("enter") :
          /\ \A clause \in Elems(at.state.clause) : IsBoolean(clause)
          /\ automaton' = Some(MarkBooleanState(at.automaton, at.frame.state_id,
                                  \A clause \in Elems(at.state.clause) : clause.value))
    /\ stack' = Pop(stack)
    /\ UNCHANGED << probe, previous, pc, config, current_contract, extractor, counters, input, result >>

\* A return on should_stop that leaves the state as it was created and
\* keeps the flag alone.
ConstructStopUnchecked ==
    /\ \E at \in AtLabel("enter") :
       \E clause \in Elems(at.state.clause) :
       \E individuals \in {GetIndividuals(clause)} :
       \E checked \in {CheckConflict(at.automaton, at.frame.state_id, individuals)} :
          /\ ~IsBoolean(clause)
          /\ ShouldStop(checked)
          /\ automaton' = Some([at.automaton EXCEPT
                                   !.conflict_found = checked.conflict_found])
    /\ stack' = Pop(stack)
    /\ UNCHANGED << probe, previous, pc, config, current_contract, extractor, counters, input, result >>

\* construct_automaton that returns on should_stop.
ConstructStop ==
    /\ \E at \in AtLabel("enter") :
       \E clause \in Elems(at.state.clause) :
       \E individuals \in {GetIndividuals(clause)} :
       \E checked \in {CheckConflict(at.automaton, at.frame.state_id, individuals)} :
          /\ ~IsBoolean(clause)
          /\ ShouldStop(checked)
          /\ automaton' = Some(checked)
    /\ stack' = Pop(stack)
    /\ UNCHANGED << probe, previous, pc, config, current_contract, extractor, counters, input, result >>

\* construct_automaton from the conflict check to the start of the first
\* chunk (or to its return, without masks).
ConstructExpand ==
    /\ \E at \in AtLabel("enter") :
       \E clause \in Elems(at.state.clause) :
       \E individuals \in {GetIndividuals(clause)} :
       \E checked \in {CheckConflict(at.automaton, at.frame.state_id, individuals)} :
       \E processed \in {ProcessComposedActions(clause)} :
       \E compressed_actions \in Elems(GenerateActions(processed, individuals)) :
          /\ ~IsBoolean(clause)
          /\ ~ShouldStop(checked)
          /\ automaton' = Some(checked)
          /\ extractor' = Some([Unwrap(extractor) EXCEPT
                                   !.cache = MapInsert(@, processed, compressed_actions)])
          /\ stack' = IF compressed_actions.valid_masks = << >>
                      THEN Pop(stack)
                      ELSE ReplaceTop(stack,
                               StartChunk([at.frame EXCEPT
                                              !.individuals = individuals,
                                              !.compressed_actions = compressed_actions],
                                          0))
    /\ UNCHANGED << probe, previous, pc, config, current_contract, counters, input, result >>

\* construct_automaton whose generate_actions panics in the enumerator.
ConstructPanic ==
    /\ \E at \in AtLabel("enter") :
       \E clause \in Elems(at.state.clause) :
       \E individuals \in {GetIndividuals(clause)} :
       \E checked \in {CheckConflict(at.automaton, at.frame.state_id, individuals)} :
       \E processed \in {ProcessComposedActions(clause)} :
          /\ ~IsBoolean(clause)
          /\ ~ShouldStop(checked)
          /\ ~IsSome(GenerateActions(processed, individuals))
          /\ automaton' = Some(checked)
    /\ pc' = "panicked"
    /\ UNCHANGED << probe, previous, config, current_contract, extractor, stack, counters, input, result >>

\* A worker takes the next mask of the chunk.
WorkerTake(w) ==
    /\ \E at \in AtLabel("batch") :
          /\ ~IsSome(at.frame.jobs[w])
          /\ at.frame.claimed < Len(at.frame.batch_results)
          /\ stack' = ReplaceTop(stack, [at.frame EXCEPT
                                            !.claimed = @ + 1,
                                            !.jobs[w] = Some(at.frame.claimed + 1)])
    /\ UNCHANGED << probe, previous, pc, config, current_contract, extractor, automaton, counters,
                    input, result >>

\* The closure of par_iter().map(): the worker decodes its mask and
\* decomposes the clause of the state under it.
WorkerCompute(w) ==
    /\ \E at \in AtLabel("batch") :
       \E clause \in Elems(at.state.clause) :
       \E position \in Elems(at.frame.jobs[w]) :
       \E mask \in {ChunkMask(at.frame.compressed_actions.valid_masks,
                              at.frame.chunk, position)} :
       \E temp_set_for_logic \in {DecodeMask(mask, at.frame.compressed_actions.source_map)} :
          /\ ~DecomposeDiverges(clause)
          /\ \E next_clause \in {Decompose(clause, temp_set_for_logic,
                                           at.frame.individuals)} :
                stack' = ReplaceTop(stack,
                             [at.frame EXCEPT
                                 !.jobs[w] = None,
                                 !.batch_results[position] = Some(next_clause)])
    /\ UNCHANGED << probe, previous, pc, config, current_contract, extractor, automaton, counters,
                    input, result >>

\* The same closure on a clause on which decompose recurses without end: the
\* worker's stack overflows and the process is aborted.
WorkerOverflow(w) ==
    /\ \E at \in AtLabel("batch") :
       \E clause \in Elems(at.state.clause) :
          /\ IsSome(at.frame.jobs[w])
          /\ DecomposeDiverges(clause) = TRUE
    /\ pc' = "overflowed"
    /\ UNCHANGED << probe, previous, config, current_contract, extractor, automaton, stack, counters,
                    input, result >>

\* collect(): every position of the chunk has its record.
Collect ==
    /\ \E at \in AtLabel("batch") :
          /\ \A p \in DOMAIN at.frame.batch_results : IsSome(at.frame.batch_results[p])
          /\ stack' = ReplaceTop(stack, [at.frame EXCEPT !.label = "integrate", !.next = 1])
    /\ UNCHANGED << probe, previous, pc, config, current_contract, extractor, automaton, counters,
                    input, result >>

\* An integration loop that walks the records of the chunk from the last
\* one to the first.
NextRecordFromLast(frame) ==
    IF frame.next <= Len(frame.batch_results)
    THEN {[mask |-> ChunkMask(frame.compressed_actions.valid_masks, frame.chunk,
                              Len(frame.batch_results) + 1 - frame.next),
           next_clause |-> Unwrap(frame.batch_results[Len(frame.batch_results) + 1
                                                      - frame.next])]}
    ELSE {}

\* The (mask, next_clause) records the integration loop has not reached yet:
\* the next one, if any.
NextRecord(frame) ==
    IF frame.next <= Len(frame.batch_results)
    THEN {[mask |-> ChunkMask(frame.compressed_actions.valid_masks, frame.chunk,
                              frame.next),
           next_clause |-> Unwrap(frame.batch_results[frame.next])]}
    ELSE {}

\* The integration loop on a record whose clause already has a state.
IntegrateExisting ==
    /\ \E at \in AtLabel("integrate") :
       \E record \in NextRecord(at.frame) :
       \E existing_state \in Elems(GetStateByClause(at.automaton, record.next_clause)) :
       \E transition \in {Transition(counters.transition, at.frame.state_id,
                                     existing_state.id, record.mask,
                                     at.frame.compressed_actions.source_map)} :
          /\ automaton' = Some(AddTransition(at.automaton, transition))
          /\ stack' = ReplaceTop(stack, [at.frame EXCEPT !.next = @ + 1])
    /\ counters' = [counters EXCEPT !.transition = @ + 1]
    /\ UNCHANGED << probe, previous, pc, config, current_contract, extractor, input, result >>

\* The integration loop on a record with a new clause, up to the recursive
\* call of construct_automaton on the new state.
IntegrateNew ==
    /\ \E at \in AtLabel("integrate") :
       \E record \in NextRecord(at.frame) :
       \E new_state \in {State(counters.state, Some(record.next_clause))} :
       \E transition \in {Transition(counters.transition, at.frame.state_id,
                                     new_state.id, record.mask,
                                     at.frame.compressed_actions.source_map)} :
       \E added \in {AddTransition(AddState(at.automaton, new_state), transition)} :
          /\ ~IsSome(GetStateByClause(at.automaton, record.next_clause))
          /\ automaton' = Some(ReplaceState(added,
                              [added.states[new_state.id] EXCEPT
                                  !.trace = Append(@, transition.id)]))
          /\ stack' = Append(ReplaceTop(stack, [at.frame EXCEPT !.next = @ + 1]),
                             Frame(new_state.id))
    /\ counters' = [state |-> counters.state + 1, transition |-> counters.transition + 1]
    /\ UNCHANGED << probe, previous, pc, config, current_contract, extractor, input, result >>

\* The end of a chunk that is not the last one.
NextChunk ==
    /\ pc = "constructing" /\ stack # << >> /\ Top.label = "integrate"
    /\ Top.next > Len(Top.batch_results)
    /\ Top.chunk + 1 < NumChunks(Top.compressed_actions.valid_masks)
    /\ stack' = ReplaceTop(stack, StartChunk(Top, Top.chunk + 1))
    /\ UNCHANGED << probe, previous, pc, config, current_contract, extractor, automaton, counters,
                    input, result >>

\* The end of the last chunk: construct_automaton returns.
ConstructReturn ==
    /\ pc = "constructing" /\ stack # << >> /\ Top.label = "integrate"
    /\ Top.next > Len(Top.batch_results)
    /\ Top.chunk + 1 >= NumChunks(Top.compressed_actions.valid_masks)
    /\ stack' = Pop(stack)
    /\ UNCHANGED << probe, previous, pc, config, current_contract, extractor, automaton, counters,
                    input, result >>

\* AutomataConstructor::process after construct_automaton returned.
ProcessReturn ==
    /\ pc = "constructing" /\ stack = << >>
    /\ result' = automaton
    /\ automaton' = None
    /\ current_contract' = None
    /\ pc' = "returned"
    /\ UNCHANGED << probe, previous, config, extractor, stack, counters, input >>

\* The most calls of process on one contract.
MaxRuns == 2

\* The caller keeps the automaton and calls process on the same constructor
\* again: the extractor with its cache and the two static counters are as
\* the earlier call left them.
ProcessAgain ==
    /\ pc = "returned"
    /\ Len(previous) < MaxRuns - 1
    /\ previous' = previous \o result
    /\ result' = None
    /\ pc' = "idle"
    /\ UNCHANGED << probe, config, current_contract, extractor, automaton, stack,
                    counters, input >>

\* The engine is started again on the same contract and configuration: a
\* new constructor, and the static counters from their initial values.
RunAgain ==
    /\ pc = "returned"
    /\ Len(previous) < MaxRuns - 1
    /\ previous' = previous \o result
    /\ result' = None
    /\ extractor' = None
    /\ counters' = [state |-> 0, transition |-> 1]
    /\ pc' = "idle"
    /\ UNCHANGED << probe, config, current_contract, automaton, stack, input >>

(***************************************************************************)
(* The contracts the constructor is run on                                 *)
(***************************************************************************)

\* The ids SymbolTable::add_symbol hands out, from id_base = 1.
Alice == 1
Bob == 2
Carol == 7
Dave == 8
ActA == WithValue(3)
ActB == WithValue(4)
ActC == WithValue(5)
ActD == WithValue(6)

\* What build_rel returns for no relativization, `{s}` and `{s, r}`.
Everyone == << -1, -1, "Global" >>
By(sender) == << sender, -1, "Relativized" >>
FromTo(sender, receiver) == << sender, receiver, "Directed" >>

\* A deontic clause and a dynamic clause as the parser builds them.
DeonticClause(rel, dtype, action) ==
    Deontic(rel[1], rel[2], rel[3], action, dtype, None, None)
DynamicClause(rel, action, inner) ==
    Dynamic(rel[1], rel[2], rel[3], action, inner, None)
AndClause(c1, c2) == SetComposition(c1, ClauseComposition("And", c2))

\* The clauses contracts are made of.
ClausePool ==
    \* O[a], F[a] under each relativization
    {DeonticClause(rel, dtype, ActA) :
        rel \in {Everyone, By(Alice), FromTo(Alice, Bob)},
        dtype \in {"Obligation", "Prohibition"}}
    \cup
    \* {alice}F[b], {alice}O[b], {bob}F[b], {bob}O[b]
    {DeonticClause(By(sender), dtype, ActB) :
        sender \in {Alice, Bob}, dtype \in {"Obligation", "Prohibition"}}
    \cup
    \* <a*>T and {alice}<a*>T
    {DynamicClause(rel, Star(ActA), BooleanTrue) : rel \in {Everyone, By(Alice)}}
    \cup
    \* {alice}[a]({alice}O[b] AND {alice}F[b]) and {alice}[c]{alice}O[d]
    {DynamicClause(By(Alice), ActA,
         AndClause(DeonticClause(By(Alice), "Obligation", ActB),
                   DeonticClause(By(Alice), "Prohibition", ActB))),
     DynamicClause(By(Alice), ActC, DeonticClause(By(Alice), "Obligation", ActD))}
    \cup
    \* {alice}<a & b>T
    {DynamicClause(By(Alice), Concurrency(ActA, ActB), BooleanTrue)}

\* The most clauses a contract of the model has.
MaxClauses == 2

RECURSIVE ClauseLists(_)
ClauseLists(n) ==
    IF n = 0 THEN {<< >>}
    ELSE LET shorter == ClauseLists(n - 1)
         IN shorter \cup
            {Append(l, c) : l \in {x \in shorter : Len(x) = n - 1},
                            c \in ClausePool}

\* The catalogues of declared conflicts: none, a # b globally, a # b per
\* individual.
Catalogues ==
    {<< {}, {} >>, << {<< ActA, ActB >>}, {} >>, << {}, {<< ActA, ActB >>} >>}

\* P[a] AND P[b] AND P[c] AND {alice,bob}P[d] AND {carol,dave}P[d]: more
\* relativized actions than the enumerator takes.
CrowdedContract ==
    Contract(<< DeonticClause(Everyone, "Permission", ActA),
                DeonticClause(Everyone, "Permission", ActB),
                DeonticClause(Everyone, "Permission", ActC),
                DeonticClause(FromTo(Alice, Bob), "Permission", ActD),
                DeonticClause(FromTo(Carol, Dave), "Permission", ActD) >>, {}, {})

\* {alice,bob}O[a] with the penalty {alice,bob}O[b]
PenaltyContract ==
    Contract(<< Deontic(Alice, Bob, "Directed", ActA, "Obligation",
                        Some(DeonticClause(FromTo(Alice, Bob), "Obligation", ActB)),
                        None) >>, {}, {})

\* {alice,bob}O[a . b]
SequenceContract ==
    Contract(<< DeonticClause(FromTo(Alice, Bob), "Obligation", Sequence(ActA, ActB)) >>,
             {}, {})

Contracts ==
    {Contract(l, cat[1], cat[2]) :
        l \in {x \in ClauseLists(MaxClauses) :
                  \A i, j \in DOMAIN x : i # j => x[i] # x[j]},
        cat \in Catalogues}
    \cup {CrowdedContract, PenaltyContract, SequenceContract}

Init ==
    /\ pc = "idle"
    /\ config \in [continue_on_conflict : BOOLEAN, use_prunning : BOOLEAN]
    /\ current_contract = None
    /\ extractor = None
    /\ automaton = None
    /\ stack = << >>
    /\ counters = [state |-> 0, transition |-> 1]
    /\ input \in Contracts
    /\ result = None
    /\ arg = None
    /\ out = None
    /\ previous = << >>
    /\ symbols = ParsedSymbols

Next ==
    \/ ProcessEmpty
    \/ Process
    \/ ConstructBoolean
    \/ ConstructStop
    \/ ConstructExpand
    \/ ConstructPanic
    \/ \E w \in Workers : WorkerTake(w)
    \/ \E w \in Workers : WorkerCompute(w)
    \/ \E w \in Workers : WorkerOverflow(w)
    \/ Collect
    \/ IntegrateExisting
    \/ IntegrateNew
    \/ NextChunk
    \/ ConstructReturn
    \/ ProcessReturn
    \/ ProcessAgain
    \/ RunAgain

Spec == Init /\ [][Next]_vars

(***************************************************************************)
(* Properties of the construction                                          *)
(***************************************************************************)

\* The automaton under construction, or the one process returned.
Automata == Elems(automaton) \cup Elems(result)

\* The ids of the states a transition of the automaton leaves.
Sources(a) == {t.from : t \in a.transitions}

\* The state of the automaton that has the id of its initial state.
InitialState(a) == a.states[Unwrap(a.initial).id]

\* C1: at every point during and after process, the clause index is a
\* function: two states with distinct ids never carry equal clauses, and
\* the index maps the clause of every state to that state's id (so a
\* successor clause that has a state is never given a second one).
C1_ClauseIndexIsFunction ==
    \A a \in Automata :
        /\ \A i, j \in DOMAIN a.states :
              a.states[i].clause = a.states[j].clause => i = j
        /\ \A i \in DOMAIN a.states : \A clause \in Elems(a.states[i].clause) :
              clause \in DOMAIN a.state_map /\ a.state_map[clause] = i

\* A returned automaton of at least three states in which a transition
\* reaches a state that another transition created.
C1_Witness ==
    /\ pc = "returned"
    /\ \E a \in Elems(result) :
          /\ Cardinality(DOMAIN a.states) >= 3
          /\ \E t \in a.transitions : a.states[t.to].trace # << t.id >>

\* C2: at every point of the construction, a state marked Violating or
\* Satisfaction is the source of no transition.
C2_BooleanStatesAreSinks ==
    \A a \in Automata : \A i \in DOMAIN a.states :
        a.states[i].situation \in {"Violating", "Satisfaction"} => i \notin Sources(a)

\* A returned automaton with a Violating and a Satisfaction state, both
\* reached by transitions.
C2_Witness ==
    /\ pc = "returned"
    /\ \E a \in Elems(result) :
          /\ \E t \in a.transitions : a.states[t.to].situation = "Violating"
          /\ \E t \in a.transitions : a.states[t.to].situation = "Satisfaction"

\* The contracts OBLIGATION[a] AND PROHIBITION[a]: one obligation and one
\* prohibition of the action a, each under any relativization.
DirectConflictContracts ==
    {c \in Contracts :
        /\ Len(c.clauses) = 2
        /\ \E i, j \in DOMAIN c.clauses :
              /\ c.clauses[i] \in {DeonticClause(rel, "Obligation", ActA) :
                                      rel \in {Everyone, By(Alice), FromTo(Alice, Bob)}}
              /\ c.clauses[j] \in {DeonticClause(rel, "Prohibition", ActA) :
                                      rel \in {Everyone, By(Alice), FromTo(Alice, Bob)}}}

IndividualsFor(clause) ==
    IF config.use_prunning THEN CalculateIndividuals(clause, input.individuals)
    ELSE input.individuals

\* The state's clause has a relativized action to fire.
HasFirableAction(state) ==
    \E clause \in Elems(state.clause) :
        CalculateRelativizedActions(ProcessComposedActions(clause),
                                    IndividualsFor(clause)) # {}

\* C4: with continue_on_conflict = false a conflict stops the expansion of
\* the conflicting state's branch only: in the automaton process returns,
\* every state checked conflict-free that has an action to fire, also one
\* integrated after the conflict was found, has outgoing transitions.
C4_ConflictStopsOneBranch ==
    (pc = "returned" /\ ~config.continue_on_conflict) =>
        \A a \in Elems(result) : \A i \in DOMAIN a.states :
            (a.states[i].situation = "ConflictFree" /\ HasFirableAction(a.states[i]))
                => i \in Sources(a)

\* The clauses below the given one: the clause, its head, and the clauses
\* below its inner clause, its penalty and the rest of its spine.
RECURSIVE SubClauses(_)
SubClauses(c) ==
    {c, SetCompositionToNone(c)}
    \cup (IF IsSome(c.clause) THEN SubClauses(Unwrap(c.clause)) ELSE {})
    \cup (IF IsSome(c.penalty) THEN SubClauses(Unwrap(c.penalty)) ELSE {})
    \cup (IF IsSome(c.composition)
          THEN SubClauses(Unwrap(c.composition).other) ELSE {})

\* k: the number of distinct sub-clauses of the contract and of its
\* elaboration, the two Boolean clauses counted in.
DistinctSubClauses(contract) ==
    Cardinality({BooleanTrue, BooleanFalse} \cup
                UNION {SubClauses(full) \cup SubClauses(ProcessComposedActions(full)) :
                          full \in Elems(GetFullContract(contract))})

\* C5: when no state has more than 30 relativized actions to fire (the
\* enumerator does not panic), the construction terminates, that is no
\* worker runs out of stack, and the automaton returned has at most k
\* states.
C5_TerminatesWithinSubClauses ==
    /\ pc # "overflowed"
    /\ pc = "returned" =>
          \A a \in Elems(result) :
              Cardinality(DOMAIN a.states) <= DistinctSubClauses(input)

\* The contracts <a*>T, for everyone and for alice.
StarContracts ==
    {c \in Contracts :
        /\ Len(c.clauses) = 1
        /\ c.clauses[1] \in {DynamicClause(rel, Star(ActA), BooleanTrue) :
                                rel \in {Everyone, By(Alice)}}}

\* C6: for the contract <a*>T the automaton process returns has a
\* transition from the initial state to the initial state.
C6_StarClosesOnItself ==
    (pc = "returned" /\ input \in StarContracts) =>
        \A a \in Elems(result) :
            \E t \in a.transitions :
                t.from = InitialState(a).id /\ t.to = InitialState(a).id

\* The clause set of a contract.
ClauseSet(contract) == {contract.clauses[i] : i \in DOMAIN contract.clauses}

\* The catalogue holds the one conflict (a, b, Relativized).
RelativizedCatalogue ==
    input.global_conflicts = {} /\ input.relativized_conflicts = {<< ActA, ActB >>}

\* The situation of the initial state in the automaton process returned
\* for the given two clauses under the catalogue (a, b, Relativized).
SituationIs(c1, c2, situation) ==
    (pc = "returned" /\ RelativizedCatalogue /\ ClauseSet(input) = {c1, c2}) =>
        \A a \in Elems(result) : InitialState(a).situation = situation

\* C7, as the code has it: under the catalogue (a, b, Relativized) the
\* initial state of {alice}O[a] AND {alice}O[b] is Conflicting, while with
\* the second obligation on bob, or with a prohibition of b in its place,
\* the initial state is ConflictFree.
C7_CatalogueJoinsObligations ==
    /\ SituationIs(DeonticClause(By(Alice), "Obligation", ActA),
                   DeonticClause(By(Alice), "Obligation", ActB), "Conflicting")
    /\ SituationIs(DeonticClause(By(Alice), "Obligation", ActA),
                   DeonticClause(By(Bob), "Obligation", ActB), "ConflictFree")
    /\ SituationIs(DeonticClause(By(Alice), "Obligation", ActA),
                   DeonticClause(By(Alice), "Prohibition", ActB), "ConflictFree")

\* process has returned a Conflicting initial state for
\* {alice}O[a] AND {alice}O[b] under the catalogue (a, b, Relativized).
C7_Witness ==
    /\ pc = "returned"
    /\ RelativizedCatalogue
    /\ ClauseSet(input) = {DeonticClause(By(Alice), "Obligation", ActA),
                           DeonticClause(By(Alice), "Obligation", ActB)}
    /\ \E a \in Elems(result) : InitialState(a).situation = "Conflicting"

\* C7, as the specification has it: under the catalogue (a, b,
\* Relativized) the initial state of {alice}O[a] AND {alice}F[b] is
\* Conflicting, and with the prohibition on bob it is not.
C7_CatalogueJoinsObligationAndProhibition ==
    /\ SituationIs(DeonticClause(By(Alice), "Obligation", ActA),
                   DeonticClause(By(Alice), "Prohibition", ActB), "Conflicting")
    /\ SituationIs(DeonticClause(By(Alice), "Obligation", ActA),
                   DeonticClause(By(Bob), "Prohibition", ActB), "ConflictFree")

(***************************************************************************)
(* The elaboration and the decomposer on their own                         *)
(***************************************************************************)

\* The deepest nesting of operators in the actions of the clauses below.
MaxNesting == 2

\* The actions over a and b with operators nested at most d deep.
RECURSIVE ActionsOfDepth(_)
ActionsOfDepth(d) ==
    IF d = 0 THEN {ActA, ActB}
    ELSE LET below == ActionsOfDepth(d - 1)
         IN below
            \cup {Choice(l, r) : l \in below, r \in below}
            \cup {Concurrency(l, r) : l \in below, r \in below}
            \cup {Sequence(l, r) : l \in below, r \in below}
            \cup {Negation(x) : x \in below}
            \cup {Star(x) : x \in below}

\* Alice's clauses over those actions: the deontic clauses, the dynamic
\* clauses over true, and the dynamic clauses guarded by a over a deontic
\* clause of one operator.
ElaborationClauses ==
    {DeonticClause(By(Alice), dtype, action) :
        dtype \in {"Obligation", "Prohibition", "Permission"},
        action \in ActionsOfDepth(MaxNesting)}
    \cup {DynamicClause(By(Alice), action, BooleanTrue) :
            action \in ActionsOfDepth(MaxNesting)}
    \cup {DynamicClause(By(Alice), ActA, DeonticClause(By(Alice), dtype, action)) :
            dtype \in {"Obligation", "Prohibition", "Permission"},
            action \in ActionsOfDepth(1)}

\* The state the functions are applied in: no construction under way.
Standalone ==
    /\ config = [continue_on_conflict |-> FALSE, use_prunning |-> TRUE]
    /\ current_contract = None
    /\ automaton = None
    /\ stack = << >>
    /\ counters = [state |-> 0, transition |-> 1]
    /\ input = Contract(<< >>, {}, {})
    /\ result = None
    /\ previous = << >>

ElaborationInit ==
    /\ Standalone
    /\ symbols = ParsedSymbols
    /\ pc = "given"
    /\ extractor = None
    /\ arg \in {[clause |-> clause, individuals |-> {Alice}, conflicts |-> {},
                 actions |-> {}] : clause \in ElaborationClauses}
    /\ out = None

\* process_composed_actions on the clause given.
Elaborate ==
    /\ pc = "given"
    /\ out' = Some(ProcessComposedActions(arg.clause))
    /\ pc' = "elaborated"
    /\ UNCHANGED << previous, symbols, config, current_contract, extractor, automaton, stack, counters,
                    input, result, arg >>

\* process_composed_actions on what it returned.
ElaborateAgain ==
    /\ pc = "elaborated"
    /\ out' = Some(ProcessComposedActions(Unwrap(out)))
    /\ pc' = "twice"
    /\ UNCHANGED << previous, symbols, config, current_contract, extractor, automaton, stack, counters,
                    input, result, arg >>

\* The action sets the enumerator finds valid for the elaborated clause.
ValidActionSets(elaborated, individuals, conflicts) ==
    UNION {{DecodeMask(compressed.valid_masks[i], compressed.source_map) :
              i \in DOMAIN compressed.valid_masks} :
           compressed \in Elems(ComputeConcurrentRelativizedActions(
                                    elaborated, individuals, conflicts))}

\* decompose on the elaborated clause and one of its valid action sets.
DecomposeElaborated ==
    /\ pc = "elaborated"
    /\ \E elaborated \in Elems(out) :
          /\ ~DecomposeDiverges(elaborated)
          /\ \E actions \in ValidActionSets(elaborated, arg.individuals, arg.conflicts) :
                /\ out' = Some(Decompose(elaborated, actions, arg.individuals))
                /\ arg' = [arg EXCEPT !.actions = actions]
    /\ pc' = "decomposed"
    /\ UNCHANGED << previous, symbols, config, current_contract, extractor, automaton, stack, counters,
                    input, result >>

\* decompose on an elaborated clause it does not return on.
DecomposeOverflow ==
    /\ pc = "elaborated"
    /\ \E elaborated \in Elems(out) : DecomposeDiverges(elaborated) = TRUE
    /\ pc' = "overflowed"
    /\ UNCHANGED << previous, symbols, config, current_contract, extractor, automaton, stack, counters,
                    input, result, arg, out >>

ElaborationNext ==
    \/ Elaborate
    \/ ElaborateAgain
    \/ DecomposeElaborated
    \/ DecomposeOverflow

SpecElaboration == ElaborationInit /\ [][ElaborationNext]_vars

\* C8: process_composed_actions applied twice gives the clause
\* process_composed_actions applied once gives, also on nested composed
\* actions and on negated composed actions.
C8_ElaborationIdempotent ==
    pc = "twice" => out = Some(ProcessComposedActions(arg.clause))

\* Every head of the spine carries a basic action.
BasicHeads(clause) ==
    \A i \in DOMAIN Spine(clause) :
        IsBoolean(Spine(clause)[i]) \/ ~IsComposedAction(Spine(clause)[i].action)

\* C9: decompose on an elaborated clause and a valid action set returns a
\* Boolean clause or a clause whose heads all carry basic actions.
C9_ResidualHasBasicHeads ==
    pc = "decomposed" => \A residual \in Elems(out) : BasicHeads(residual)

(***************************************************************************)
(* The action extractor on its own                                         *)
(***************************************************************************)

\* The most conflicts a catalogue below declares.
MaxCatalogue == 1

\* The conflicts over a and b, an action with itself included.
CatalogueEntries ==
    {Conflict(x, y, conflict_type) :
        x \in {ActA, ActB}, y \in {ActA, ActB},
        conflict_type \in {"Global", "Relativized"}}

\* The clauses over a, b and a.b under each relativization.
ExtractionClauses ==
    {DeonticClause(rel, dtype, action) :
        rel \in {Everyone, By(Alice), By(Bob), FromTo(Alice, Bob), FromTo(Bob, Alice)},
        dtype \in {"Obligation", "Prohibition", "Permission"},
        action \in {ActA, ActB, Sequence(ActA, ActB)}}
    \cup {DynamicClause(rel, action, BooleanTrue) :
            rel \in {Everyone, By(Alice), By(Bob), FromTo(Alice, Bob), FromTo(Bob, Alice)},
            action \in {ActA, ActB, Sequence(ActA, ActB)}}

\* A clause, the individuals and a catalogue for which the clause has
\* exactly one relativized action to fire.
SingleActionInputs ==
    {[clause |-> clause, individuals |-> individuals, conflicts |-> conflicts,
      actions |-> {}] :
        clause \in ExtractionClauses,
        individuals \in SUBSET {Alice, Bob},
        conflicts \in {c \in SUBSET CatalogueEntries : Cardinality(c) <= MaxCatalogue}}

ExtractionInit ==
    /\ Standalone
    /\ symbols = ParsedSymbols
    /\ pc = "given"
    /\ arg \in {x \in SingleActionInputs :
                  Cardinality(CalculateRelativizedActions(
                      ProcessComposedActions(x.clause), x.individuals)) = 1}
    /\ extractor = Some([conflicts |-> arg.conflicts, cache |-> EmptyMap])
    /\ out = None

\* ActionExtractor::calculate_concurrent_relativized_actions, on a new
\* extractor and then on the one that has the clause in its cache.
Extract ==
    /\ pc \in {"given", "extracted"}
    /\ \E processed \in {ProcessComposedActions(arg.clause)} :
       \E compressed \in Elems(GenerateActions(processed, arg.individuals)) :
          /\ extractor' = Some([Unwrap(extractor) EXCEPT
                                   !.cache = MapInsert(@, processed, compressed)])
          /\ out' = Some(compressed)
    /\ pc' = IF pc = "given" THEN "extracted" ELSE "cached"
    /\ UNCHANGED << previous, symbols, config, current_contract, automaton, stack, counters, input,
                    result, arg >>

ExtractionNext == Extract

SpecExtraction == ExtractionInit /\ [][ExtractionNext]_vars

\* The catalogue declares the action of the relativized action in conflict
\* with itself.
SelfConflicting(relativized_action, conflicts) ==
    \E conflict \in conflicts :
        /\ conflict.a.value = relativized_action.action.value
        /\ conflict.b.value = relativized_action.action.value

C11_MasksWithinSourceMap ==
    \A a \in Automata : \A t \in a.transitions :
        /\ t.mask > 0
        /\ t.mask < Pow2(Len(t.source_map))

\* A transition labelled by the appended negation alone: the highest bit of
\* a two-entry source map.
C11_Witness ==
    \E a \in Automata : \E t \in a.transitions :
        /\ Len(t.source_map) = 2
        /\ t.mask = Pow2(1)
        /\ t.source_map[2] = RelativizedNegation(t.source_map[1])

\* The transitions of automaton a that leave the state holding `clause`,
\* split by whether their action set contains `action`.
TransitionsFrom(a, clause, action, contained) ==
    {t \in a.transitions :
        /\ a.states[t.from].clause = Some(clause)
        /\ (action \in DecodeMask(t.mask, t.source_map)) = contained}

\* Every transition of automaton a from the state of `clause`, with or
\* without `action` in its set, leads to a state of clause `target`.
LeadsTo(a, clause, action, contained, target) ==
    \A t \in TransitionsFrom(a, clause, action, contained) :
        a.states[t.to].clause = Some(target)

\* The Boolean states of a returned automaton carry the situation of their
\* value.
BooleanSituations(a) ==
    \A id \in DOMAIN a.states :
        /\ a.states[id].clause = Some(BooleanTrue) =>
               a.states[id].situation = "Satisfaction"
        /\ a.states[id].clause = Some(BooleanFalse) =>
               a.states[id].situation = "Violating"

\* C12: for {alice,bob}O[a] with penalty {alice,bob}O[b], a transition from
\* the initial state with (alice, a, bob) leads to the true state and one
\* without it to the penalty state; from the penalty state (alice, b, bob)
\* leads to true and its absence to false; the true state is Satisfaction
\* and the false state Violating.
C12_PenaltyChain ==
    input = PenaltyContract =>
        /\ \A a \in Automata :
              \E initial \in {input.clauses[1]} :
              \E penalty \in {Unwrap(initial.penalty)} :
              \E alice_a_bob \in {RelativizedAction(Alice, ActA, Bob)} :
              \E alice_b_bob \in {RelativizedAction(Alice, ActB, Bob)} :
                  /\ InitialState(a).clause = Some(initial)
                  /\ LeadsTo(a, initial, alice_a_bob, TRUE, BooleanTrue)
                  /\ LeadsTo(a, initial, alice_a_bob, FALSE, penalty)
                  /\ LeadsTo(a, penalty, alice_b_bob, TRUE, BooleanTrue)
                  /\ LeadsTo(a, penalty, alice_b_bob, FALSE, BooleanFalse)
        /\ pc = "returned" => \A a \in Elems(result) : BooleanSituations(a)

\* process has returned the automaton of the penalty contract with all four
\* kinds of transition in it.
C12_Witness ==
    /\ pc = "returned"
    /\ input = PenaltyContract
    /\ \E a \in Elems(result) :
          \E initial \in {input.clauses[1]} :
              /\ \A contained \in BOOLEAN :
                    /\ TransitionsFrom(a, initial,
                           RelativizedAction(Alice, ActA, Bob), contained) # {}
                    /\ TransitionsFrom(a, Unwrap(initial.penalty),
                           RelativizedAction(Alice, ActB, Bob), contained) # {}
              /\ \E id \in DOMAIN a.states : a.states[id].situation = "Violating"

\* The clauses along the spine of a clause, each without its composition.
RECURSIVE Heads(_)
Heads(clause) ==
    {SetCompositionToNone(clause)}
    \cup (IF IsSome(clause.composition)
          THEN Heads(Unwrap(clause.composition).other) ELSE {})

\* C13: for {alice,bob}O[a . b] without penalty, the successor of a
\* transition from the initial state with (alice, a, bob) contains
\* {alice,bob}O[b], and the successor of one without it is false.
C13_SequenceSteps ==
    input = SequenceContract =>
        \A a \in Automata :
            \E initial \in {input.clauses[1]} :
            \E alice_a_bob \in {RelativizedAction(Alice, ActA, Bob)} :
                /\ InitialState(a).clause = Some(initial)
                /\ \A t \in TransitionsFrom(a, initial, alice_a_bob, TRUE) :
                      DeonticClause(FromTo(Alice, Bob), "Obligation", ActB)
                          \in Heads(Unwrap(a.states[t.to].clause))
                /\ LeadsTo(a, initial, alice_a_bob, FALSE, BooleanFalse)

\* process has returned the automaton of the sequence contract with a
\* transition of each kind from its initial state.
C13_Witness ==
    /\ pc = "returned"
    /\ input = SequenceContract
    /\ \E a \in Elems(result) :
          \A contained \in BOOLEAN :
              TransitionsFrom(a, input.clauses[1],
                  RelativizedAction(Alice, ActA, Bob), contained) # {}

(***************************************************************************)
(* Two runs on the same contract                                           *)
(***************************************************************************)

\* The position of a state id among the ids of automaton a: ids are drawn
\* from an increasing counter, so this is the order of creation.
CreationRank(a, id) == Cardinality({other \in DOMAIN a.states : other < id})

\* What of an automaton does not depend on the values of its state ids.
UpToRenaming(a) ==
    [states |-> Cardinality(DOMAIN a.states),
     transitions |-> Cardinality(a.transitions),
     graph |-> {<< CreationRank(a, t.from), t.mask, CreationRank(a, t.to) >> :
                   t \in a.transitions},
     situations |-> {<< CreationRank(a, id), a.states[id].situation >> :
                        id \in DOMAIN a.states}]

\* C14: two runs of process on the same contract and configuration return
\* automata with the same numbers of states and transitions, the same
\* (from, mask, to) transitions and the same situation per state, once the
\* state ids are renamed in creation order.
C14_RunsAgree ==
    pc = "returned" =>
        \A a \in Elems(result) : \A b \in Elems(previous) :
            UpToRenaming(a) = UpToRenaming(b)

\* A second call on the same constructor has returned an automaton with a
\* conflict-free initial state, transitions to several states, and ids
\* other than those of the first.
C14_Witness ==
    /\ pc = "returned"
    /\ \E a \in Elems(result) : \E b \in Elems(previous) :
          /\ IsSome(a.initial) /\ IsSome(b.initial)
          /\ InitialState(a).id # InitialState(b).id
          /\ InitialState(a).situation = "ConflictFree"
          /\ Cardinality({t.to : t \in a.transitions}) > 1

(***************************************************************************)
(* The capacity of the enumeration                                         *)
(***************************************************************************)

\* The state's clause has more relativized actions to fire than the
\* enumerator takes.
Crowded(state) ==
    \E clause \in Elems(state.clause) :
        Cardinality(CalculateRelativizedActions(ProcessComposedActions(clause),
                                                IndividualsFor(clause)))
            > MaxConcurrentActions

Identifiers == {"a", "b", "alice"}
SymbolTypes == {"Action", "Individual"}

SymbolsInit ==
    /\ Standalone
    /\ pc = "new"
    /\ extractor = None
    /\ symbols = NewSymbolTable
    /\ arg = None
    /\ out = None

\* A call of add_symbol: arg keeps the table as it was and the pair asked
\* for, out the id returned.
CallAddSymbol ==
    /\ pc \in {"new", "added", "cleared"}
    /\ \E value \in Identifiers : \E symbol_type \in SymbolTypes :
       \E added \in {AddSymbol(symbols, value, symbol_type)} :
          /\ symbols' = added.table
          /\ out' = Some(added.id)
          /\ arg' = Some([table |-> symbols, value |-> value,
                          symbol_type |-> symbol_type])
    /\ pc' = "added"
    /\ UNCHANGED << previous, config, current_contract, extractor, automaton, stack,
                    counters, input, result >>

\* A call of clear.
CallClear ==
    /\ pc \in {"new", "added", "cleared"}
    /\ symbols' = Clear(symbols)
    /\ out' = None
    /\ arg' = Some([table |-> symbols, value |-> "", symbol_type |-> ""])
    /\ pc' = "cleared"
    /\ UNCHANGED << previous, config, current_contract, extractor, automaton, stack,
                    counters, input, result >>

SymbolsNext == CallAddSymbol \/ CallClear

SpecSymbols == SymbolsInit /\ [][SymbolsNext]_vars

\* The (identifier, type) pair of a dictionary entry.
KeyOf(symbol) == << symbol.value, symbol.symbol_type >>

\* C16: after any sequence of add_symbol and clear the lookup and the
\* dictionary hold the same pairs with the same ids, every id is positive,
\* no two entries share an id or a pair, and add_symbol of a pair already
\* present returns its id and leaves the table as it was.
C16_SymbolsBijective ==
    pc \in {"new", "added", "cleared"} =>
        /\ \A i \in DOMAIN symbols.dictionary :
              /\ symbols.dictionary[i].id > 0
              /\ KeyOf(symbols.dictionary[i]) \in DOMAIN symbols.lookup
              /\ symbols.lookup[KeyOf(symbols.dictionary[i])] = symbols.dictionary[i].id
              /\ \A j \in DOMAIN symbols.dictionary :
                    i # j => /\ symbols.dictionary[i].id # symbols.dictionary[j].id
                             /\ KeyOf(symbols.dictionary[i]) # KeyOf(symbols.dictionary[j])
        /\ \A key \in DOMAIN symbols.lookup :
              \E i \in DOMAIN symbols.dictionary :
                  /\ KeyOf(symbols.dictionary[i]) = key
                  /\ symbols.dictionary[i].id = symbols.lookup[key]
        /\ pc = "added" =>
              \E call \in Elems(arg) :
                  /\ out = Some(symbols.lookup[<< call.value, call.symbol_type >>])
                  /\ << call.value, call.symbol_type >> \in DOMAIN call.table.lookup =>
                        /\ symbols = call.table
                        /\ out = Some(call.table.lookup[<< call.value, call.symbol_type >>])

\* add_symbol was called with a pair the table already held, and the table
\* holds one identifier under both types.
C16_Witness ==
    /\ pc = "added"
    /\ \E call \in Elems(arg) :
          /\ << call.value, call.symbol_type >> \in DOMAIN call.table.lookup
          /\ call.table.id_base > 1
    /\ \E i, j \in DOMAIN symbols.dictionary :
          /\ symbols.dictionary[i].value = symbols.dictionary[j].value
          /\ symbols.dictionary[i].symbol_type # symbols.dictionary[j].symbol_type

(***************************************************************************)
(* The enumeration, the recombination, the deontic step and the extraction *)
(* of a spine, each applied on its own                                     *)
(***************************************************************************)

\* What a function is applied to: `fn` names it, the other fields are its
\* arguments and are empty where it has none of that kind.
Application(fn, clause, other, comp_type, individuals, conflicts, actions) ==
    [fn |-> fn, clause |-> clause, other |-> other, comp_type |-> comp_type,
     individuals |-> individuals, conflicts |-> conflicts, actions |-> actions]

\* The relativized actions the action sets below are made of.
ActionPool ==
    {RelativizedAction(Alice, ActA, Bob), RelativizedAction(Bob, ActA, Alice),
     RelativizedAction(Alice, ActB, Bob), RelativizedAction(Bob, ActB, Alice)}

\* Every set of relativized actions under every catalogue.
EnumerationInputs ==
    {Application("calculate_concurrent_relativized_actions", None, None, "None",
                 {}, conflicts, actions) :
        actions \in SUBSET ActionPool,
        conflicts \in {c \in SUBSET CatalogueEntries : Cardinality(c) <= MaxCatalogue}}

\* The operands of combine: the two Boolean clauses, heads, and clauses
\* with a tail of their own.
CombineOperands ==
    {BooleanTrue, BooleanFalse,
     DeonticClause(By(Alice), "Obligation", ActA),
     DynamicClause(By(Alice), ActA, DeonticClause(By(Alice), "Obligation", ActB)),
     AndClause(DeonticClause(By(Alice), "Obligation", ActA),
               DeonticClause(By(Alice), "Prohibition", ActB)),
     SetComposition(DeonticClause(By(Alice), "Obligation", ActA),
                    ClauseComposition("Or", DeonticClause(By(Bob), "Obligation", ActB)))}

CombineInputs ==
    {Application("combine", Some(c1), Some(c2), comp_type, {}, {}, {}) :
        c1 \in CombineOperands, c2 \in CombineOperands,
        comp_type \in {"And", "Or", "Xor"}}

\* Deontic heads over a and its negation, with and without a penalty, the
\* individuals of the decomposer and the chosen action set.
DeonticInputs ==
    {Application("decompose_deontic",
                 Some(Deontic(rel[1], rel[2], rel[3], action, dtype, penalty, None)),
                 None, "None", individuals, {}, actions) :
        rel \in {Everyone, By(Alice), FromTo(Alice, Bob)},
        action \in {ActA, Negate(ActA)},
        dtype \in {"Obligation", "Prohibition", "Permission"},
        penalty \in {None, Some(DeonticClause(By(Alice), "Obligation", ActB))},
        individuals \in {{Alice}, {Alice, Bob}, {Alice, Bob, Carol}},
        actions \in SUBSET {RelativizedAction(Alice, ActA, Bob),
                            RelativizedAction(Alice, ActA, Carol),
                            RelativizedAction(Bob, ActA, Alice),
                            RelativizedAction(Alice, ActA, Alice),
                            RelativizedAction(Alice, ActB, Bob)}}

\* The most heads on a spine below.
MaxSpine == 3

\* The heads the spines are made of.
SpineHeads ==
    {BooleanTrue, BooleanFalse,
     DeonticClause(By(Alice), "Obligation", ActA),
     DeonticClause(FromTo(Alice, Bob), "Prohibition", ActB),
     DynamicClause(Everyone, ActA, BooleanTrue)}

\* The clauses of at most n heads joined by And.
RECURSIVE Spines(_)
Spines(n) ==
    IF n = 1 THEN SpineHeads
    ELSE LET shorter == Spines(n - 1)
         IN shorter \cup {AndClause(head, rest) : head \in SpineHeads, rest \in shorter}

SpineInputs ==
    {Application("calculate_relativized_actions", Some(clause), None, "None",
                 individuals, {}, {}) :
        clause \in Spines(MaxSpine), individuals \in {{Alice}, {Alice, Bob}}}

\* The tags of obligations and permissions of a whose conflict set is
\* built, among alice and bob, under every catalogue.
TagInputs ==
    {Application("get_predefined_conflicts", Some(tag), None, "None",
                 {Alice, Bob}, conflicts, {}) :
        tag \in UNION {{TagGlobal(deontic_type, ActA),
                        TagRelativized(deontic_type, ActA, Alice),
                        TagDirected(deontic_type, ActA, Alice, Bob)} :
                       deontic_type \in {"Obligation", "Permission"}},
        conflicts \in {c \in SUBSET CatalogueEntries : Cardinality(c) <= MaxCatalogue}}

FunctionsInit ==
    /\ Standalone
    /\ symbols = ParsedSymbols
    /\ pc = "given"
    /\ extractor = None
    /\ arg \in EnumerationInputs \cup CombineInputs \cup DeonticInputs \cup SpineInputs
               \cup TagInputs
    /\ out = None

\* ContractUtil::calculate_concurrent_relativized_actions on a set and a
\* catalogue.
ApplyEnumeration ==
    /\ pc = "given"
    /\ arg.fn = "calculate_concurrent_relativized_actions"
    /\ out' = CalculateConcurrentActions(arg.actions, arg.conflicts)
    /\ pc' = "applied"
    /\ UNCHANGED << previous, symbols, config, current_contract, extractor, automaton,
                    stack, counters, input, result, arg >>

\* ClauseDecomposer::combine on two clauses and a connective.
ApplyCombine ==
    /\ pc = "given"
    /\ arg.fn = "combine"
    /\ out' = Some(Combine(Unwrap(arg.clause), Unwrap(arg.other), arg.comp_type))
    /\ pc' = "applied"
    /\ UNCHANGED << previous, symbols, config, current_contract, extractor, automaton,
                    stack, counters, input, result, arg >>

\* ClauseDecomposer::decompose_deontic on a head and an action set.
ApplyDecomposeDeontic ==
    /\ pc = "given"
    /\ arg.fn = "decompose_deontic"
    /\ out' = Some(DecomposeDeontic(Unwrap(arg.clause), arg.actions, arg.individuals))
    /\ pc' = "applied"
    /\ UNCHANGED << previous, symbols, config, current_contract, extractor, automaton,
                    stack, counters, input, result, arg >>

\* ActionExtractor::calculate_relativized_actions on a clause.
ApplyCalculateRelativizedActions ==
    /\ pc = "given"
    /\ arg.fn = "calculate_relativized_actions"
    /\ out' = Some(CalculateRelativizedActions(Unwrap(arg.clause), arg.individuals))
    /\ pc' = "applied"
    /\ UNCHANGED << previous, symbols, config, current_contract, extractor, automaton,
                    stack, counters, input, result, arg >>

\* ConflictSearcher::get_predefined_conflicts on a tag, with the types
\* generate_conflict_set passes for the tag's deontic type.
ApplyGetPredefinedConflicts ==
    /\ pc = "given"
    /\ arg.fn = "get_predefined_conflicts"
    /\ \E tag \in Elems(arg.clause) :
          out' = Some(GetPredefinedConflicts(tag,
                          IF tag.deontic_type = "Obligation"
                          THEN {"Obligation", "Permission"} ELSE {"Obligation"},
                          arg.individuals, arg.conflicts))
    /\ pc' = "applied"
    /\ UNCHANGED << previous, symbols, config, current_contract, extractor, automaton,
                    stack, counters, input, result, arg >>

FunctionsNext ==
    \/ ApplyEnumeration
    \/ ApplyCombine
    \/ ApplyDecomposeDeontic
    \/ ApplyCalculateRelativizedActions
    \/ ApplyGetPredefinedConflicts

SpecFunctions == FunctionsInit /\ [][FunctionsNext]_vars

\* `fn` has been applied.
Applied(fn) == pc = "applied" /\ arg.fn = fn

\* The validity of an action set under a catalogue: not empty, no Global
\* conflict (a, b) with an action of a and an action of b in it, and no
\* Relativized conflict (a, b) with an action of a and an action of b of
\* one sender in it.
ValidSubset(S, catalogue) ==
    /\ S # {}
    /\ \A conflict \in catalogue :
          /\ conflict.conflict_type = "Global" =>
                ~(/\ \E x \in S : x.action.value = conflict.a.value
                  /\ \E y \in S : y.action.value = conflict.b.value)
          /\ conflict.conflict_type = "Relativized" =>
                ~\E x \in S : \E y \in S :
                     /\ x.action.value = conflict.a.value
                     /\ y.action.value = conflict.b.value
                     /\ x.sender = y.sender

\* C17: the source map of the enumeration lists the given actions once
\* each, and its masks are, once each, exactly the masks whose subset is
\* valid under the catalogue.
C17_MasksAreValidSubsets ==
    Applied("calculate_concurrent_relativized_actions") =>
        \E compressed \in Elems(out) :
            /\ Len(compressed.source_map) = Cardinality(arg.actions)
            /\ Elems(compressed.source_map) = arg.actions
            /\ Elems(compressed.valid_masks) =
                   {mask \in 0 .. Pow2(Cardinality(arg.actions)) - 1 :
                       ValidSubset(DecodeMask(mask, compressed.source_map),
                                   arg.conflicts)}
            /\ Len(compressed.valid_masks) = Cardinality(Elems(compressed.valid_masks))

\* The enumeration of all four actions under a Global conflict of a with b
\* has returned: some subsets of two actions are valid and others are not.
C17_Witness ==
    /\ Applied("calculate_concurrent_relativized_actions")
    /\ arg.actions = ActionPool
    /\ arg.conflicts = {Conflict(ActA, ActB, "Global")}
    /\ \E compressed \in Elems(out) :
          /\ Pow2(0) + Pow2(1) \in Elems(compressed.valid_masks)
              \/ Pow2(0) + Pow2(2) \in Elems(compressed.valid_masks)
          /\ Len(compressed.valid_masks) < Pow2(4) - 1

\* C18: under Or, combine of the Boolean true with any clause is the
\* Boolean true, and combine of the Boolean false with a clause x is x,
\* whichever side the Boolean is on.
C18_OrWithBoolean ==
    (Applied("combine") /\ arg.comp_type = "Or") =>
        \E c1 \in Elems(arg.clause) : \E c2 \in Elems(arg.other) :
            /\ (c1 = BooleanTrue \/ c2 = BooleanTrue) => out = Some(BooleanTrue)
            /\ (c1 = BooleanFalse /\ c2 # BooleanTrue) => out = Some(c2)
            /\ (c2 = BooleanFalse /\ c1 # BooleanTrue) => out = Some(c1)

\* C19: decompose_deontic on a head with a basic action that is neither
\* SKIP nor VIOLATION returns true when the head is satisfied by the chosen
\* set (an obligation: some action of the head chosen when Relativized, all
\* of them otherwise; a prohibition: none chosen; a permission: always),
\* and otherwise the penalty, or false when there is none.
C19_DeonticStep ==
    Applied("decompose_deontic") =>
        \E head \in Elems(arg.clause) :
        \E Rh \in {GenerateRelativizedActions(head, arg.individuals)} :
        \E satisfied \in
            {CASE head.dtype = "Obligation" ->
                    IF head.rtype = "Relativized" THEN arg.actions \cap Rh # {}
                    ELSE Rh \subseteq arg.actions
               [] head.dtype = "Prohibition" -> arg.actions \cap Rh = {}
               [] head.dtype = "Permission" -> TRUE} :
            out = IF satisfied THEN Some(BooleanTrue)
                  ELSE IF IsSome(head.penalty) THEN head.penalty
                  ELSE Some(BooleanFalse)

\* A Relativized obligation with a penalty and two actions was satisfied by
\* a set that holds one of them, or a Global one went to its penalty under
\* a set that holds one of its two actions.
C19_Witness ==
    /\ Applied("decompose_deontic")
    /\ \E head \in Elems(arg.clause) :
       \E Rh \in {GenerateRelativizedActions(head, arg.individuals)} :
          /\ head.dtype = "Obligation"
          /\ IsSome(head.penalty)
          /\ Cardinality(Rh) = 2
          /\ Cardinality(arg.actions \cap Rh) = 1
          /\ \/ head.rtype = "Relativized" /\ out = Some(BooleanTrue)
             \/ head.rtype = "Global" /\ out = head.penalty

\* C20: the relativized actions the extractor computes for a clause are the
\* union of the actions of all heads along its spine, those after a Boolean
\* node included.
C20_SpineUnion ==
    Applied("calculate_relativized_actions") =>
        out = Some(UNION {GenerateRelativizedActions(head, arg.individuals) :
                             head \in Heads(Unwrap(arg.clause))})

(***************************************************************************)
(* The workers and the order of integration                                *)
(***************************************************************************)

\* The workers of a chunk are computing.
InBatch == pc = "constructing" /\ stack # << >> /\ Top.label = "batch"

\* The position of a mask in a sequence of masks (0 when it is not there).
PositionOf(mask, masks) ==
    IF mask \in Elems(masks) THEN CHOOSE i \in DOMAIN masks : masks[i] = mask ELSE 0

\* The valid masks the extractor holds for the clause of a state.
ValidMasksOf(state) ==
    IF IsSome(extractor) /\ IsSome(state.clause)
       /\ ProcessComposedActions(Unwrap(state.clause)) \in DOMAIN Unwrap(extractor).cache
    THEN Unwrap(extractor).cache[ProcessComposedActions(Unwrap(state.clause))].valid_masks
    ELSE << >>

\* The transitions out of every state have their ids in the order of their
\* masks in valid_masks.
IdsInMaskOrder ==
    \A a \in Automata : \A t1 \in a.transitions : \A t2 \in a.transitions :
        (t1.from = t2.from /\ t1.id < t2.id) =>
            \E masks \in {ValidMasksOf(a.states[t1.from])} :
                /\ PositionOf(t1.mask, masks) > 0
                /\ PositionOf(t1.mask, masks) < PositionOf(t2.mask, masks)

\* C21: no step taken while the workers of a chunk compute changes the
\* automaton, and under every interleaving of the workers the transitions
\* out of a state get increasing ids in the order of valid_masks.
C21_WorkersLeaveAutomaton ==
    /\ []IdsInMaskOrder
    /\ [][InBatch => automaton' = automaton]_vars

\* The record of the second mask of a chunk was delivered before the
\* record of the first, and the masks of the state fill another chunk after
\* this one.
C21_Witness ==
    /\ InBatch
    /\ Len(Top.batch_results) = 2
    /\ ~IsSome(Top.batch_results[1])
    /\ IsSome(Top.batch_results[2])
    /\ NumChunks(Top.compressed_actions.valid_masks) > Top.chunk + 1

(***************************************************************************)
(* The catalogue in the conflict closure                                   *)
(***************************************************************************)

\* C22: what one catalogue conflict on the tag's action adds to the tag's
\* conflict set is, for a Global conflict, Global tags of the other action
\* only and, for a Relativized conflict, tags of the tag's own sender only.
C22_CatalogueTags ==
    Applied("get_predefined_conflicts") =>
        \A tag \in Elems(arg.clause) : \A tags \in Elems(out) :
        \A conflict \in arg.conflicts :
            (arg.conflicts = {conflict} /\ conflict.a = tag.action) =>
                /\ conflict.conflict_type = "Global" =>
                      \A t \in tags : t.relativization = "Global" /\ t.action = conflict.b
                /\ conflict.conflict_type = "Relativized" =>
                      \A t \in tags : t.sender = tag.sender

(***************************************************************************)
(* The traces of the finished automaton                                    *)
(***************************************************************************)

\* The transition of automaton a a walk back from state id takes: the one
\* named by the first element of the state's trace.
StepBack(a, id) ==
    IF id \in DOMAIN a.states /\ a.states[id].trace # << >>
    THEN {t \in a.transitions : t.id = a.states[id].trace[1]}
    ELSE {}

\* The walk back from state id comes to the initial state within `fuel`
\* steps, and every transition it takes has the state it was taken from as
\* its target.
RECURSIVE WalksBack(_, _, _)
WalksBack(a, id, fuel) ==
    \/ id = InitialState(a).id
    \/ /\ fuel > 0
       /\ StepBack(a, id) # {}
       /\ \A t \in StepBack(a, id) :
             t.to = id /\ WalksBack(a, t.from, fuel - 1)

\* C23: in the automaton process returns the initial state has an empty
\* trace, and the walk back from every state along the first elements of
\* the traces ends at the initial state over transitions into the states it
\* left.
C23_TracesLeadBack ==
    pc = "returned" =>
        \A a \in Elems(result) :
            IsSome(a.initial) =>
                /\ InitialState(a).trace = << >>
                /\ \A id \in DOMAIN a.states :
                      WalksBack(a, id, Cardinality(DOMAIN a.states)) = TRUE

\* process has returned an automaton with a state whose walk back takes two
\* transitions.
C23_Witness ==
    /\ pc = "returned"
    /\ \E a \in Elems(result) : \E id \in DOMAIN a.states :
       \E t \in StepBack(a, id) :
          /\ t.from # InitialState(a).id
          /\ StepBack(a, t.from) # {}

(***************************************************************************)
(* What recombination keeps                                                *)
(***************************************************************************)

\* C24: when combine is given a non-Boolean c1 that has a composition of
\* its own and a non-Boolean c2, every head on the spine of c1 is a head on
\* the spine of the result.
C24_CombineKeepsSpine ==
    Applied("combine") =>
        \A c1 \in Elems(arg.clause) : \A c2 \in Elems(arg.other) :
        \A combined \in Elems(out) :
            (~IsBoolean(c1) /\ IsSome(c1.composition) /\ ~IsBoolean(c2)) =>
                Heads(c1) \subseteq Heads(combined)

(***************************************************************************)
(* The termination of decompose                                            *)
(***************************************************************************)

\* C25: decompose returns on every elaborated clause, whatever operator its
\* head carries: a call never ends in the overflow of the stack.
C25_DecomposeReturns ==
    pc \in {"decomposed", "overflowed"} => pc = "decomposed" /\ IsSome(out)

(***************************************************************************)
(* The initial field of the automaton                                      *)
(***************************************************************************)

\* C26: once process has returned, the state held in the automaton's
\* initial field has the situation and the conflict information of the
\* entry of the same id in the state set.
C26_InitialAgrees ==
    pc = "returned" =>
        \A a \in Elems(result) : \A initial \in Elems(a.initial) :
            /\ initial.situation = a.states[initial.id].situation
            /\ initial.conflict_information =
                   a.states[initial.id].conflict_information

(***************************************************************************)
(* What the extractor hands back                                           *)
(***************************************************************************)

\* The caller calls process on the same constructor with a second contract:
\* the clauses of the first under another catalogue. The extractor, its
\* cache and the static counters are as the first call left them.
ProcessSecondContract ==
    /\ pc = "returned"
    /\ Len(previous) < MaxRuns - 1
    /\ input' \in {Contract(input.clauses, cat[1], cat[2]) : cat \in Catalogues}
                     \ {input}
    /\ previous' = previous \o result
    /\ result' = None
    /\ pc' = "idle"
    /\ UNCHANGED << probe, config, current_contract, extractor, automaton, stack,
                    counters >>

SecondContractNext == Next \/ ProcessSecondContract

\* One constructor over its life when the caller may hand it a second
\* contract.
SpecSecondContract == Init /\ [][SecondContractNext]_vars

\* What a new extractor made for the contract being processed computes for
\* the clause of the state.
FreshlyComputed(clause) ==
    ComputeConcurrentRelativizedActions(ProcessComposedActions(clause),
        GetIndividuals(clause), GetAllConflicts(Unwrap(current_contract)))

\* C27: the source map and the masks every activation of
\* construct_automaton got from generate_actions are the ones a new
\* extractor computes for the clause of its state, the clause's individuals
\* and the catalogue of the contract being processed, on a cache hit and
\* on a constructor that has processed another contract before.
C27_ExtractorIsFresh ==
    pc = "constructing" =>
        \A i \in DOMAIN stack :
            stack[i].label # "enter" =>
                \A clause \in Elems(TheAutomaton.states[stack[i].state_id].clause) :
                    Some(stack[i].compressed_actions) = FreshlyComputed(clause)

(***************************************************************************)
(* The conflict flag and the conflicting states                            *)
(***************************************************************************)

\* The flag is set exactly when a state is Conflicting, and a state carries
\* conflict information exactly when it is Conflicting.
FlagMatchesStates ==
    \A a \in Automata :
        /\ a.conflict_found <=>
               \E id \in DOMAIN a.states : a.states[id].situation = "Conflicting"
        /\ \A id \in DOMAIN a.states :
               IsSome(a.states[id].conflict_information) <=>
                   a.states[id].situation = "Conflicting"

\* Within one construction the flag, once set, stays set, and a Conflicting
\* state stays Conflicting.
ConflictsStay ==
    \A a \in Elems(automaton) : \A b \in Elems(automaton') :
        /\ a.conflict_found => b.conflict_found
        /\ \A id \in DOMAIN a.states :
               a.states[id].situation = "Conflicting" =>
                   /\ id \in DOMAIN b.states
                   /\ b.states[id].situation = "Conflicting"

\* C28: at every point of the construction and after it, conflict_found is
\* true exactly when some state of the automaton is Conflicting, a state has
\* conflict information exactly when its situation is Conflicting, the flag
\* is never reset and a Conflicting state never changes its situation.
C28_ConflictFlag ==
    /\ []FlagMatchesStates
    /\ [][ConflictsStay]_vars

\* With continue_on_conflict set, the construction has gone on after a
\* conflict: a Conflicting state with its information, the flag set, and a
\* state created after it already checked ConflictFree.
C28_Witness ==
    /\ pc = "constructing"
    /\ \E a \in Elems(automaton) :
          /\ a.conflict_found
          /\ \E id, later \in DOMAIN a.states :
                /\ a.states[id].situation = "Conflicting"
                /\ IsSome(a.states[id].conflict_information)
                /\ later > id
                /\ a.states[later].situation = "ConflictFree"

(***************************************************************************)
(* The situations of the finished automaton                                *)
(***************************************************************************)

\* The state was checked: a Boolean clause is marked by its value, any other
\* clause is Conflicting or ConflictFree.
Checked(state) ==
    \A clause \in Elems(state.clause) :
        IF IsBoolean(clause)
        THEN state.situation = IF clause.value THEN "Satisfaction" ELSE "Violating"
        ELSE state.situation \in {"Conflicting", "ConflictFree"}

\* C29: when process has returned, no state of the automaton is NotChecked:
\* the states of Boolean clauses are Satisfaction or Violating and every
\* other state is Conflicting or ConflictFree, the states created after a
\* conflict was found with continue_on_conflict = false included.
C29_AllChecked ==
    pc = "returned" =>
        \A a \in Elems(result) : \A id \in DOMAIN a.states :
            /\ IsSome(a.states[id].clause)
            /\ Checked(a.states[id])

\* process has returned with continue_on_conflict = false an automaton with
\* a Conflicting state, a ConflictFree state created after it and a state
\* of a Boolean clause.
C29_Witness ==
    /\ pc = "returned"
    /\ ~config.continue_on_conflict
    /\ \E a \in Elems(result) : \E id, later, boolean \in DOMAIN a.states :
          /\ a.states[id].situation = "Conflicting"
          /\ later > id
          /\ a.states[later].situation = "ConflictFree"
          /\ a.states[boolean].situation \in {"Satisfaction", "Violating"}

(***************************************************************************)
(* The transitions of the finished automaton                               *)
(***************************************************************************)

\* The state was expanded: its clause is not Boolean and its activation did
\* not return on should_stop.
Expanded(a, id) ==
    /\ \A clause \in Elems(a.states[id].clause) : ~IsBoolean(clause)
    /\ id \in Sources(a) \/ ~ShouldStop(a)

\* The transitions out of the state carry each valid mask of its clause
\* once, and no other mask.
OnePerMask(a, id) ==
    \E masks \in {ValidMasksOf(a.states[id])} :
        /\ \A i \in DOMAIN masks :
              Cardinality({t \in a.transitions :
                              t.from = id /\ t.mask = masks[i]}) = 1
        /\ \A t \in a.transitions : t.from = id => t.mask \in Elems(masks)

\* C30: in the automaton process returns every expanded state has exactly
\* one transition per valid mask of its clause, the source and the target of
\* every transition are ids of states of the automaton, and
\* construct_automaton is entered only on a state that was never entered
\* before: one that is NotChecked and has no transition out of it.
C30_OneTransitionPerMask ==
    /\ \A at \in AtLabel("enter") :
          /\ at.state.situation = "NotChecked"
          /\ at.frame.state_id \notin Sources(at.automaton)
    /\ \A a \in Automata : \A t \in a.transitions :
          t.from \in DOMAIN a.states /\ t.to \in DOMAIN a.states
    /\ pc = "returned" =>
          \A a \in Elems(result) : \A id \in DOMAIN a.states :
              Expanded(a, id) => OnePerMask(a, id)

\* process has returned an automaton in which an expanded state has three
\* valid masks, two of them leading to the same state.
C30_Witness ==
    /\ pc = "returned"
    /\ \E a \in Elems(result) : \E id \in DOMAIN a.states :
          /\ Expanded(a, id)
          /\ Len(ValidMasksOf(a.states[id])) = 3
          /\ \E t1, t2 \in a.transitions :
                /\ t1.from = id /\ t2.from = id
                /\ t1.mask # t2.mask
                /\ t1.to = t2.to

====
